---- MODULE Spec2Model ----
(***************************************************************************)
(* Cross-Market-Analysis: the ingestion scripts' fetch/retry loops, the    *)
(* crypto daily-price normalizer, and the SQLite store with its query      *)
(* layer, as state machines.                                               *)
(*                                                                         *)
(* Each script is a separate process (python <script>.py); `prog` says     *)
(* which one a behaviour runs.  Every HTTP request and every time.sleep is *)
(* appended to `log` in the order the code performs them.                  *)
(***************************************************************************)
EXTENDS Integers, Sequences, FiniteSets, Bags, TLC

VARIABLES
    prog,       \* the script being run: "pages", "coins" or "tickers"
    phase,      \* "running", "returned" (the batch function returned), "raised"
                \* (an exception left the batch function or the normalizer)
    unit,       \* 1-based index of the resource unit the batch loop is at
    attempt,    \* the retry loop's `attempt` for that unit
    log,        \* requests.get / download calls and time.sleep calls, in order
    all_data,   \* fetch_all_pages: the list all_data
    result,     \* fetch_all_daily_prices: the dict result, as <<coin_id, data>> items
    df,         \* download_all_tickers: the local df
    frames,     \* download_all_tickers: the list frames
    raw_data,   \* process_prices_to_rows: its argument, as <<coin_id, prices>> items
    rows,       \* process_prices_to_rows: the returned list
    normalized, \* whether process_prices_to_rows has returned
    db,         \* the database file: the committed contents of each table
    conn,       \* the writing call's connection: open, in a transaction, its view
    call,       \* the store call in progress (or just returned): fn, arg, pc, i, exc
    ret,        \* how the call ended: "none" (not yet), "ok", an exception, "killed"
    pre,        \* history: db when the call in `call` started
    hist,       \* history: per table, the rows of the latest call holding each key
    repeat,     \* history: the call repeats the successful call just before it
    seen,       \* the last call of the query layer: the rows it returned, where
                \* the writing call stood (at, i), the file when it ended (after)
    qpre,       \* history: db when that call of the query layer started
    sent        \* history: the statements (text, params) of the last two calls
                \* of select_stock_price(ticker, limit) and of the dashboard's
                \* date-range and coin pages, in call order

fetchVars == <<prog, phase, unit, attempt, log, all_data, result, df, frames>>
normVars == <<raw_data, rows, normalized>>
storeVars == <<db, conn, call, ret, pre, hist, repeat, seen, qpre, sent>>
vars == <<prog, phase, unit, attempt, log, all_data, result, df, frames,
          raw_data, rows, normalized,
          db, conn, call, ret, pre, hist, repeat, seen, qpre, sent>>

\* The four tables of the SQLite file, and the three historical ones.
Tables == {"Cryptocurrencies", "Crypto_prices", "oil_price", "stock_price"}
HistTables == {"Crypto_prices", "oil_price", "stock_price"}

\* A table of the file: whether it was created, and its rows as a bag (SQLite
\* itself does not forbid equal rows; the schema's keys do).
NoTable == [exists |-> FALSE, rows |-> EmptyBag]
EmptyTable == [exists |-> TRUE, rows |-> EmptyBag]

\* A database file sqlite3.connect has just created: no table yet.
FreshDb == [t \in Tables |-> NoTable]

\* No connection is open.
\* (view holds a transaction's uncommitted contents; outside a transaction it
\* is not used and is kept at FreshDb.)
Closed == [open |-> FALSE, txn |-> FALSE, view |-> FreshDb]

\* No store call was made yet, and no query.
NoCall ==
    [fn |-> "none", arg |-> <<>>, pc |-> "idle", i |-> 0, exc |-> "none",
     own_conn |-> TRUE]
NoHist == [t \in Tables |-> {}]
NotSeen == [kind |-> "none", query |-> "none", table |-> "none",
            rows |-> EmptyBag, at |-> "idle", i |-> 0, after |-> FreshDb]

\* The store as the fetch scripts and the normalizer leave it: untouched.
StoreOff ==
    /\ db = FreshDb
    /\ conn = Closed
    /\ call = NoCall
    /\ ret = "none"
    /\ pre = FreshDb
    /\ hist = NoHist
    /\ repeat = FALSE
    /\ seen = NotSeen
    /\ qpre = FreshDb
    /\ sent = <<>>

---------------------------------------------------------------------------
(* Program constants.                                                      *)

\* coin_daily_price.py
DELAY_SECONDS == 15
RETRY_DELAY == 60
MAX_RETRIES == 3
\* collect_coingecko_data.py (same names in that file; prefixed here)
NUM_PAGES == 5
PAGE_DELAY_SECONDS == 15
PAGE_RETRY_DELAY == 60
PAGE_MAX_RETRIES == 3
\* stock_price.py
DELAY_BETWEEN_TICKERS == 3
RATE_LIMIT_RETRIES == 4
RATE_LIMIT_WAIT_SEC == 45
TICKERS == <<"^GSPC", "^IXIC", "^NSEI">>

\* Bound: how many of the ten TOP_COIN_IDS a modelled run iterates over.
NumCoins == 3

AllCoinIds ==
    <<"bitcoin", "ethereum", "tether", "binancecoin", "solana",
      "ripple", "usd-coin", "cardano", "avalanche-2", "dogecoin">>

Min(a, b) == IF a < b THEN a ELSE b

TOP_COIN_IDS == SubSeq(AllCoinIds, 1, Min(NumCoins, Len(AllCoinIds)))

---------------------------------------------------------------------------
(* The outside world: what one requests.get(url) can answer.  `json` says  *)
(* whether response.json() can parse the body.                             *)

Statuses == {200, 404, 429, 500}

\* The body of a 404 or 500 is never read by either script, so only one such
\* response is enumerated per status.
Responses ==
    {r \in [status : Statuses, json : BOOLEAN] :
        r.status \in {404, 500} => ~ r.json}

\* requests.Response.raise_for_status(): raises HTTPError for 4xx and 5xx.
RaisesForStatus(status) == status >= 400 /\ status < 600

\* Python's None.
None == [none |-> TRUE]

\* The parsed body of the response to request number `a` for unit `u`.
Body(u, a, resp) == [unit |-> u, attempt |-> a, status |-> resp.status]

\* A log entry for one request of unit u: `what` is the response (HTTP
\* scripts) or what the download call did (stock_price.py).
ReqEvent(u, what) == <<"req", u, what>>
SleepEvent(sec) == <<"sleep", sec>>

\* Mutant of DelayAfter: the delay without the `i < n` test.
DelayAfter_unconditional(i, n, sec) == <<SleepEvent(sec)>>

\* The `if i < n: time.sleep(sec)` that ends an iteration of a batch loop
\* (coin_daily_price.py 70-71, collect_coingecko_data.py 43-45).
DelayAfter(i, n, sec) == IF i < n THEN <<SleepEvent(sec)>> ELSE <<>>

\* The `if i > 0: time.sleep(sec)` that starts an iteration (stock_price.py
\* 76-77); `i` is the 0-based enumerate index.
DelayBefore(i, sec) == IF i > 0 THEN <<SleepEvent(sec)>> ELSE <<>>

---------------------------------------------------------------------------
(* collect_coingecko_data.py                                               *)

\* Mutant of fetch_page: errors other than 429 are retried like a 429
\* (`if response.status_code != 200` at line 25).
fetch_page_retries_errors(page, a, resp) ==
    IF resp.status # 200
    THEN IF a < PAGE_MAX_RETRIES - 1
         THEN [kind |-> "continue", value |-> <<>>,
               sleeps |-> <<SleepEvent(PAGE_RETRY_DELAY)>>]
         ELSE [kind |-> "raise", value |-> <<>>, sleeps |-> <<>>]
    ELSE IF resp.json
         THEN [kind |-> "return", value |-> <<Body(page, a, resp)>>,
               sleeps |-> <<>>]
         ELSE [kind |-> "raise", value |-> <<>>, sleeps |-> <<>>]

\* Mutant of fetch_page: `return response.json()` one level out, as in
\* fetch_market_chart, so that a throttled attempt sleeps and then returns.
fetch_page_returns_throttled(page, a, resp) ==
    IF resp.status = 429 /\ a < PAGE_MAX_RETRIES - 1
    THEN IF resp.json
         THEN [kind |-> "return", value |-> <<Body(page, a, resp)>>,
               sleeps |-> <<SleepEvent(PAGE_RETRY_DELAY)>>]
         ELSE [kind |-> "raise", value |-> <<>>,
               sleeps |-> <<SleepEvent(PAGE_RETRY_DELAY)>>]
    ELSE IF RaisesForStatus(resp.status)
         THEN [kind |-> "raise", value |-> <<>>, sleeps |-> <<>>]
         ELSE IF resp.json
              THEN [kind |-> "return", value |-> <<Body(page, a, resp)>>,
                    sleeps |-> <<>>]
              ELSE [kind |-> "raise", value |-> <<>>, sleeps |-> <<>>]

\* One iteration of fetch_page's `for attempt in range(MAX_RETRIES)` for the
\* response `resp`: the loop goes on ("continue"), the function returns the
\* parsed list ("return"), or an exception leaves it ("raise": HTTPError from
\* raise_for_status, or the decode error of response.json(); nothing in
\* fetch_page or fetch_all_pages catches either).
fetch_page(page, a, resp) ==
    IF resp.status = 429
    THEN IF a < PAGE_MAX_RETRIES - 1
         THEN [kind |-> "continue", value |-> <<>>,
               sleeps |-> <<SleepEvent(PAGE_RETRY_DELAY)>>]
         ELSE IF RaisesForStatus(resp.status)
              THEN [kind |-> "raise", value |-> <<>>, sleeps |-> <<>>]
              \* the loop ends and line 34 returns response.json()
              ELSE IF resp.json
                   THEN [kind |-> "return", value |-> <<Body(page, a, resp)>>,
                         sleeps |-> <<>>]
                   ELSE [kind |-> "raise", value |-> <<>>, sleeps |-> <<>>]
    ELSE IF RaisesForStatus(resp.status)
         THEN [kind |-> "raise", value |-> <<>>, sleeps |-> <<>>]
         ELSE IF resp.json
              THEN [kind |-> "return", value |-> <<Body(page, a, resp)>>,
                    sleeps |-> <<>>]
              ELSE [kind |-> "raise", value |-> <<>>, sleeps |-> <<>>]

\* fetch_all_pages, one request at a time: the request of fetch_page(unit),
\* what fetch_page does with the response and, when fetch_page returns, the
\* rest of the batch loop's iteration.
fetch_all_pages ==
    /\ prog = "pages"
    /\ phase = "running"
    /\ \E resp \in Responses :
          LET r == fetch_page(unit, attempt, resp)
              log1 == (log \o <<ReqEvent(unit, resp)>>) \o r.sleeps
          IN  CASE r.kind = "continue" ->
                     /\ attempt' = attempt + 1
                     /\ log' = log1
                     /\ UNCHANGED <<phase, unit, all_data>>
                [] r.kind = "raise" ->
                     /\ phase' = "raised"
                     /\ log' = log1
                     /\ UNCHANGED <<unit, attempt, all_data>>
                [] r.kind = "return" ->
                     /\ all_data' = all_data \o r.value
                     /\ log' = log1 \o DelayAfter(unit, NUM_PAGES, PAGE_DELAY_SECONDS)
                     /\ unit' = unit + 1
                     /\ attempt' = 0
                     /\ phase' = IF unit < NUM_PAGES THEN "running" ELSE "returned"
    /\ UNCHANGED <<prog, result, df, frames>>
    /\ UNCHANGED normVars
    /\ UNCHANGED storeVars

---------------------------------------------------------------------------
(* coin_daily_price.py: the fetch loops                                    *)

\* One iteration of fetch_market_chart's `for attempt in range(MAX_RETRIES)`.
\* Inside the try: on 429 before the last attempt the code sleeps and then
\* falls through to line 55, `return response.json()`, which is at the level
\* of the `if`, not inside its else branch.  Every requests.RequestException
\* (HTTPError of raise_for_status, the decode error of response.json()) is
\* caught at line 56 and turned into `return None`.
fetch_market_chart(coin, a, resp) ==
    LET \* line 55, with line 56-58 around it
        parsed(slept) ==
            IF resp.json
            THEN [kind |-> "return", value |-> Body(coin, a, resp), sleeps |-> slept]
            ELSE [kind |-> "return", value |-> None, sleeps |-> slept]
        \* raise_for_status() raised: lines 56-58
        caught == [kind |-> "return", value |-> None, sleeps |-> <<>>]
    IN  IF resp.status = 429
        THEN IF a < MAX_RETRIES - 1
             THEN parsed(<<SleepEvent(RETRY_DELAY)>>)
             ELSE IF RaisesForStatus(resp.status) THEN caught ELSE parsed(<<>>)
        ELSE IF RaisesForStatus(resp.status) THEN caught ELSE parsed(<<>>)

\* fetch_all_daily_prices, one request at a time.
fetch_all_daily_prices ==
    /\ prog = "coins"
    /\ phase = "running"
    /\ \E resp \in Responses :
          LET r == fetch_market_chart(unit, attempt, resp)
              log1 == (log \o <<ReqEvent(unit, resp)>>) \o r.sleeps
              n == Len(TOP_COIN_IDS)
          IN  IF r.kind = "continue"
              THEN IF attempt + 1 < MAX_RETRIES
                   THEN /\ attempt' = attempt + 1
                        /\ log' = log1
                        /\ UNCHANGED <<phase, unit, result>>
                   ELSE \* line 59: return None after the loop
                        /\ log' = log1 \o DelayAfter(unit, n, DELAY_SECONDS)
                        /\ unit' = unit + 1
                        /\ attempt' = 0
                        /\ phase' = IF unit < n THEN "running" ELSE "returned"
                        /\ UNCHANGED result
              ELSE /\ result' = IF r.value # None
                                THEN Append(result, <<TOP_COIN_IDS[unit], r.value>>)
                                ELSE result
                   /\ log' = log1 \o DelayAfter(unit, n, DELAY_SECONDS)
                   /\ unit' = unit + 1
                   /\ attempt' = 0
                   /\ phase' = IF unit < n THEN "running" ELSE "returned"
    /\ UNCHANGED <<prog, all_data, df, frames>>
    /\ UNCHANGED normVars
    /\ UNCHANGED storeVars

---------------------------------------------------------------------------
(* stock_price.py: download_all_tickers                                    *)

\* What one download_ticker_history call can do: return rows, return the
\* empty frame (line 51-52), raise YFRateLimitError, raise anything else.
Downloads == {"rows", "empty", "rate_limit", "error"}

\* ticker.replace("^", "") on the configured tickers (line 66).
StripCaret(t) ==
    CASE t = "^GSPC" -> "GSPC"
      [] t = "^IXIC" -> "IXIC"
      [] t = "^NSEI" -> "NSEI"
      [] OTHER -> t

\* pd.DataFrame(): no rows, no columns.
EmptyFrame == [empty |-> TRUE, ticker |-> "", of |-> ""]

\* The frame download_ticker_history(t) returns.
download_ticker_history(t, out) ==
    IF out = "rows"
    THEN [empty |-> FALSE, ticker |-> StripCaret(t), of |-> t]
    ELSE EmptyFrame

\* Mutant of download_attempt: the last attempt is given up one early
\* (`attempt < RATE_LIMIT_RETRIES - 1`).
download_attempt_gives_up_early(t, a, out, dfOld) ==
    CASE out = "rate_limit" ->
            IF a < RATE_LIMIT_RETRIES - 1
            THEN [kind |-> "continue", df |-> dfOld,
                  sleeps |-> <<SleepEvent(RATE_LIMIT_WAIT_SEC)>>]
            ELSE [kind |-> "exhausted", df |-> EmptyFrame, sleeps |-> <<>>]
      [] out = "error" ->
            [kind |-> "raise", df |-> dfOld, sleeps |-> <<>>]
      [] OTHER ->
            [kind |-> "break", df |-> download_ticker_history(t, out),
             sleeps |-> <<>>]

\* Mutant of download_attempt: one attempt more than RATE_LIMIT_RETRIES
\* (`attempt <= RATE_LIMIT_RETRIES`).
download_attempt_one_more(t, a, out, dfOld) ==
    CASE out = "rate_limit" ->
            IF a < RATE_LIMIT_RETRIES + 1
            THEN [kind |-> "continue", df |-> dfOld,
                  sleeps |-> <<SleepEvent(RATE_LIMIT_WAIT_SEC)>>]
            ELSE [kind |-> "exhausted", df |-> EmptyFrame, sleeps |-> <<>>]
      [] out = "error" ->
            [kind |-> "raise", df |-> dfOld, sleeps |-> <<>>]
      [] OTHER ->
            [kind |-> "break", df |-> download_ticker_history(t, out),
             sleeps |-> <<>>]

\* Mutant of download_attempt: without the `df = pd.DataFrame()` of line 93,
\* a ticker skipped after its retries leaves df as the previous ticker left it.
download_attempt_keeps_frame(t, a, out, dfOld) ==
    CASE out = "rate_limit" ->
            IF a < RATE_LIMIT_RETRIES
            THEN [kind |-> "continue", df |-> dfOld,
                  sleeps |-> <<SleepEvent(RATE_LIMIT_WAIT_SEC)>>]
            ELSE [kind |-> "exhausted", df |-> dfOld, sleeps |-> <<>>]
      [] out = "error" ->
            [kind |-> "raise", df |-> dfOld, sleeps |-> <<>>]
      [] OTHER ->
            [kind |-> "break", df |-> download_ticker_history(t, out),
             sleeps |-> <<>>]

\* One iteration of `for attempt in range(1, RATE_LIMIT_RETRIES + 1)` for
\* ticker t: "break" (the download returned), "continue" (rate limited, slept,
\* next attempt), "exhausted" (rate limited on the last attempt: df is set to
\* the empty frame and the loop ends) or "raise" (any other exception: nothing
\* catches it).
download_attempt(t, a, out, dfOld) ==
    CASE out = "rate_limit" ->
            IF a < RATE_LIMIT_RETRIES
            THEN [kind |-> "continue", df |-> dfOld,
                  sleeps |-> <<SleepEvent(RATE_LIMIT_WAIT_SEC)>>]
            ELSE [kind |-> "exhausted", df |-> EmptyFrame, sleeps |-> <<>>]
      [] out = "error" ->
            [kind |-> "raise", df |-> dfOld, sleeps |-> <<>>]
      [] OTHER ->
            [kind |-> "break", df |-> download_ticker_history(t, out),
             sleeps |-> <<>>]

\* download_all_tickers(TICKERS, ...), one download call at a time.
download_all_tickers ==
    /\ prog = "tickers"
    /\ phase = "running"
    /\ \E out \in Downloads :
          LET t == TICKERS[unit]
              r == download_attempt(t, attempt, out, df)
              before == IF attempt = 1
                        THEN DelayBefore(unit - 1, DELAY_BETWEEN_TICKERS)
                        ELSE <<>>
              log1 == ((log \o before) \o <<ReqEvent(unit, out)>>) \o r.sleeps
          IN  /\ log' = log1
              /\ df' = r.df
              /\ CASE r.kind = "continue" ->
                        /\ attempt' = attempt + 1
                        /\ UNCHANGED <<phase, unit, frames>>
                   [] r.kind = "raise" ->
                        /\ phase' = "raised"
                        /\ UNCHANGED <<unit, attempt, frames>>
                   [] OTHER ->
                        /\ frames' = IF ~ r.df.empty THEN Append(frames, r.df)
                                     ELSE frames
                        /\ unit' = unit + 1
                        /\ attempt' = 1
                        /\ phase' = IF unit < Len(TICKERS) THEN "running"
                                    ELSE "returned"
    /\ UNCHANGED <<prog, all_data, result>>
    /\ UNCHANGED normVars
    /\ UNCHANGED storeVars

---------------------------------------------------------------------------
(* coin_daily_price.py: process_prices_to_rows                             *)
(*                                                                         *)
(* Timestamps are integers of milliseconds since the epoch.  Prices are    *)
(* decimal numbers held as integer counts of 10^-7 (one digit more than    *)
(* the 6 the code rounds to).  A date string is the sequence of its ten    *)
(* character codes, so that sorted() compares what Python compares.        *)

\* Bounds of the enumerated inputs.
MaxSamples == 3
NumDays == 3

\* round(float(price), 6) on a price in units of 10^-7.  The enumerated
\* prices have no 5 as seventh digit, so no tie (and no binary
\* representation of one) is involved.
Round6(p) == ((p + 5) \div 10) * 10

\* datetime.fromtimestamp(ts_ms / 1000, tz=timezone.utc): the proleptic
\* Gregorian <<year, month, day>> of the UTC instant.
UtcDate(ts_ms) ==
    LET secs == ts_ms \div 1000
        days == secs \div 86400
        z == days + 719468
        era == z \div 146097
        doe == z - era * 146097
        yoe == (doe - doe \div 1460 + doe \div 36524 - doe \div 146096) \div 365
        doy == doe - (365 * yoe + yoe \div 4 - yoe \div 100)
        mp == (5 * doy + 2) \div 153
        d == doy - (153 * mp + 2) \div 5 + 1
        m == IF mp < 10 THEN mp + 3 ELSE mp - 9
        y == yoe + era * 400 + (IF m <= 2 THEN 1 ELSE 0)
    IN  <<y, m, d>>

\* Character codes: '0'..'9' are 48..57, '-' is 45.
Digit(n) == 48 + n

\* dt.strftime("%Y-%m-%d") for a four-digit year.
StrfDate(ymd) ==
    LET y == ymd[1]
        m == ymd[2]
        d == ymd[3]
    IN  <<Digit(y \div 1000), Digit((y \div 100) % 10), Digit((y \div 10) % 10),
          Digit(y % 10), 45, Digit(m \div 10), Digit(m % 10), 45,
          Digit(d \div 10), Digit(d % 10)>>

\* Python's str < str: lexicographic on the characters.
RECURSIVE StrLess(_, _)
StrLess(a, b) ==
    IF a = <<>> THEN b # <<>>
    ELSE IF b = <<>> THEN FALSE
    ELSE IF Head(a) # Head(b) THEN Head(a) < Head(b)
    ELSE StrLess(Tail(a), Tail(b))

\* Mutant of DictSet: a key already present keeps its value (setdefault).
DictSet_keeps_first(d, k, v) == d @@ (k :> v)

\* d[k] = v on a dict d (a function on its key set).
DictSet(d, k, v) == (k :> v) @@ d

\* Lines 92-96: by_date after the loop over prices[1..n].
RECURSIVE by_date_of(_, _)
by_date_of(prices, n) ==
    IF n = 0 THEN <<>>
    ELSE LET ts_ms == prices[n][1]
             price == prices[n][2]
             day == StrfDate(UtcDate(ts_ms))
         IN  DictSet(by_date_of(prices, n - 1), day, Round6(price))

\* sorted(by_date.items()): the keys in ascending string order.
RECURSIVE SortedKeys(_)
SortedKeys(keys) ==
    IF keys = {} THEN <<>>
    ELSE LET k == CHOOSE x \in keys : \A y \in keys : x = y \/ StrLess(x, y)
         IN  <<k>> \o SortedKeys(keys \ {k})

\* api_data.get("prices") or []
PricesOf(api_data) ==
    IF "prices" \in DOMAIN api_data THEN api_data.prices ELSE <<>>

\* Mutant of coin_rows: a coin without prices gets one row without a price.
coin_rows_placeholder(coin_id, api_data) ==
    LET prices == PricesOf(api_data)
        by_date == by_date_of(prices, Len(prices))
        dates == SortedKeys(DOMAIN by_date)
    IN  IF prices = <<>>
        THEN <<[coin_id |-> coin_id, date |-> <<>>, price_usd |-> 0]>>
        ELSE [k \in 1..Len(dates) |->
                [coin_id |-> coin_id, date |-> dates[k],
                 price_usd |-> by_date[dates[k]]]]

\* Lines 90-98 for one item of raw_data: the rows appended for coin_id.
coin_rows(coin_id, api_data) ==
    LET prices == PricesOf(api_data)
        by_date == by_date_of(prices, Len(prices))
        dates == SortedKeys(DOMAIN by_date)
    IN  [k \in 1..Len(dates) |->
            [coin_id |-> coin_id, date |-> dates[k], price_usd |-> by_date[dates[k]]]]

\* process_prices_to_rows(raw_data): the rows of the items, in dict order.
RECURSIVE rows_of(_, _)
rows_of(raw, n) ==
    IF n = 0 THEN <<>>
    ELSE rows_of(raw, n - 1) \o coin_rows(raw[n][1], raw[n][2])

\* `for ts_ms, price in prices` can unpack every element of prices: each is
\* a pair.  (An element of another length raises ValueError.)
Unpacks(api_data) ==
    \A k \in DOMAIN PricesOf(api_data) : Len(PricesOf(api_data)[k]) = 2

\* process_prices_to_rows(raw_data) as main calls it (line 146): it returns
\* the rows, or the exception of an element that does not unpack leaves it
\* and, nothing in main catching it, ends the run.
process_prices_to_rows ==
    /\ prog = "normalize"
    /\ phase = "returned"
    /\ ~ normalized
    /\ IF \A i \in DOMAIN raw_data : Unpacks(raw_data[i][2])
       THEN /\ rows' = rows_of(raw_data, Len(raw_data))
            /\ normalized' = TRUE
            /\ phase' = phase
       ELSE /\ rows' = rows
            /\ normalized' = FALSE
            /\ phase' = "raised"
    /\ UNCHANGED raw_data
    /\ UNCHANGED <<prog, unit, attempt, log, all_data, result, df, frames>>
    /\ UNCHANGED storeVars

\* The enumerated inputs.  Days around the epoch (1969-12-31, 1970-01-01,
\* ...): millisecond timestamps of later years exceed TLC's 32-bit integers.
MsPerDay == 86400000
Days == {d - 2 : d \in 1..NumDays}
DayOffsets == {7200000, 82800000}
Timestamps == {d * MsPerDay + o : d \in Days, o \in DayOffsets}
Prices == {1015000000, 1001234568}
Samples == {<<t, p>> : t \in Timestamps, p \in Prices}

SampleLists(n) == UNION {[1..k -> Samples] : k \in 0..n}

\* What a stored payload can be: a market_chart mapping with n samples, or
\* (n = 0) a mapping without the "prices" key, or (n = 1) a mapping whose
\* prices list holds an element that is no (timestamp, price) pair.
PayloadsOfLen(n) ==
    {[prices |-> l] : l \in [1..n -> Samples]}
        \cup (IF n = 0 THEN {[status |-> 429]} ELSE {})
        \cup (IF n = 1 THEN {[prices |-> <<(<<t>>)>>] : t \in Timestamps} ELSE {})

\* raw_data: no coin, the first coin, or the first two coins of
\* TOP_COIN_IDS (dict order), each with a payload.
RawInput(k, p1, p2) ==
    SubSeq(<<(<<AllCoinIds[1], p1>>), (<<AllCoinIds[2], p2>>)>>, 1, k)

\* The argument of process_prices_to_rows: MaxSamples samples at most in
\* total.
InitRows ==
    /\ prog = "normalize"
    /\ phase = "returned"
    /\ unit = 1
    /\ attempt = 0
    /\ log = <<>>
    /\ all_data = <<>>
    /\ result = <<>>
    /\ df = EmptyFrame
    /\ frames = <<>>
    /\ \E k \in 0..2 :
          \E n1 \in 0..(IF k >= 1 THEN MaxSamples ELSE 0) :
              \E n2 \in 0..(IF k >= 2 THEN MaxSamples - n1 ELSE 0) :
                  \E p1 \in PayloadsOfLen(n1), p2 \in PayloadsOfLen(n2) :
                      raw_data = RawInput(k, p1, p2)
    /\ rows = <<>>
    /\ normalized = FALSE
    /\ StoreOff

NextRows == process_prices_to_rows

SpecRows == InitRows /\ [][NextRows]_vars

---------------------------------------------------------------------------
(* The fetch specification: one of the three scripts runs from its start.  *)

Programs == {"pages", "coins", "tickers"}

Init ==
    /\ prog \in Programs
    /\ phase = "running"
    /\ unit = 1
    /\ attempt = IF prog = "tickers" THEN 1 ELSE 0
    /\ log = <<>>
    /\ all_data = <<>>
    /\ result = <<>>
    /\ df = EmptyFrame
    /\ frames = <<>>
    /\ raw_data = <<>>
    /\ rows = <<>>
    /\ normalized = FALSE
    /\ StoreOff

Next ==
    \/ fetch_all_pages
    \/ fetch_all_daily_prices
    \/ download_all_tickers

Spec == Init /\ [][Next]_vars

---------------------------------------------------------------------------
(* Reading the log.                                                        *)

IsReq(i) == log[i][1] = "req"

\* Positions of the requests of unit u.
ReqIdx(u) == {i \in DOMAIN log : IsReq(i) /\ log[i][2] = u}

AllReqIdx == {i \in DOMAIN log : IsReq(i)}

MaxOf(S) == CHOOSE x \in S : \A y \in S : y <= x

\* Units (1-based: page number, position in TOP_COIN_IDS, position in
\* TICKERS) of the running script, and its two sleep lengths.
NumUnits ==
    CASE prog = "pages" -> NUM_PAGES
      [] prog = "coins" -> Len(TOP_COIN_IDS)
      [] prog = "tickers" -> Len(TICKERS)

RetrySleep ==
    CASE prog = "pages" -> SleepEvent(PAGE_RETRY_DELAY)
      [] prog = "coins" -> SleepEvent(RETRY_DELAY)
      [] prog = "tickers" -> SleepEvent(RATE_LIMIT_WAIT_SEC)

UnitDelay ==
    CASE prog = "pages" -> SleepEvent(PAGE_DELAY_SECONDS)
      [] prog = "coins" -> SleepEvent(DELAY_SECONDS)
      [] prog = "tickers" -> SleepEvent(DELAY_BETWEEN_TICKERS)

\* The batch loop is past unit u.
Over(u) == u < unit \/ phase # "running"

\* Every response unit u got so far was a throttling one.
Throttled(u) ==
    /\ ReqIdx(u) # {}
    /\ \A i \in ReqIdx(u) :
          IF prog = "tickers" THEN log[i][3] = "rate_limit"
          ELSE log[i][3].status = 429

\* Unit u was requested exactly n times, with one retry sleep and nothing
\* else between consecutive requests, and no retry sleep after the last.
RetriedExactly(u, n) ==
    /\ Cardinality(ReqIdx(u)) = n
    /\ \A i \in ReqIdx(u) :
          IF i = MaxOf(ReqIdx(u))
          THEN i + 1 \in DOMAIN log => log[i + 1] # RetrySleep
          ELSE /\ log[i + 1] = RetrySleep
               /\ i + 2 \in ReqIdx(u)

\* Keys of the dict result.
ResultKeys == {result[k][1] : k \in DOMAIN result}

---------------------------------------------------------------------------
(* Claims about the fetch loops.                                           *)

\* C1 (as claimed): once fetch_market_chart is over for a coin that only got
\* 429 responses, the coin was requested exactly MAX_RETRIES times with a
\* RETRY_DELAY sleep between consecutive requests, and the coin is skipped:
\* it is no key of result, so no 429 body was returned as its payload.
C1_ThrottledCoinExhaustsRetries ==
    prog = "coins" =>
        \A u \in 1..Len(TOP_COIN_IDS) :
            (Over(u) /\ Throttled(u)) =>
                /\ RetriedExactly(u, MAX_RETRIES)
                /\ TOP_COIN_IDS[u] \notin ResultKeys

\* C2 (as claimed): in fetch_market_chart a 429 on a non-final attempt is
\* followed by a RETRY_DELAY sleep and then by a new request for the same
\* coin, and whatever is stored for a coin is the payload of a successful
\* (200) response.
C2_RetryStateMachine ==
    prog = "coins" =>
        /\ \A u \in 1..Len(TOP_COIN_IDS) : \A i \in ReqIdx(u) :
              (/\ Over(u)
               /\ log[i][3].status = 429
               /\ Cardinality({j \in ReqIdx(u) : j <= i}) < MAX_RETRIES) =>
                    /\ log[i + 1] = SleepEvent(RETRY_DELAY)
                    /\ i + 2 \in ReqIdx(u)
        /\ \A k \in DOMAIN result : result[k][2].status = 200

\* C3: in download_all_tickers a ticker whose every attempt was rate limited
\* is attempted exactly RATE_LIMIT_RETRIES times with a RATE_LIMIT_WAIT_SEC
\* sleep between consecutive attempts, contributes no frame, and does not end
\* the batch: when the batch returns every later ticker was downloaded, and
\* the batch only ever ends early on a download error that is no rate limit.
C3_ThrottledTickerSkipped ==
    prog = "tickers" =>
        \A u \in 1..Len(TICKERS) :
            (Over(u) /\ Throttled(u)) =>
                /\ RetriedExactly(u, RATE_LIMIT_RETRIES)
                /\ Cardinality({i \in ReqIdx(u) :
                                   /\ i + 1 \in DOMAIN log
                                   /\ log[i + 1] = RetrySleep})
                      = RATE_LIMIT_RETRIES - 1
                /\ \A k \in DOMAIN frames : frames[k].of # TICKERS[u]
                /\ phase = "returned" =>
                      \A v \in (u + 1)..Len(TICKERS) : ReqIdx(v) # {}
                /\ phase = "raised" =>
                      /\ log[Len(log)][3] = "error"
                      /\ log[Len(log)][2] > u
                /\ phase = "running" => unit > u

\* C3 witness: the first ticker was skipped after its retries and a later
\* ticker's rows were appended.
C3_Witness ==
    /\ prog = "tickers"
    /\ Over(1) /\ Throttled(1)
    /\ frames # <<>>
    /\ phase = "returned"

\* C4: while a page only gets 429 responses fetch_page never returns: it is
\* requested at most MAX_RETRIES times, each request but the MAX_RETRIES-th is
\* followed by a RETRY_DELAY sleep, and the MAX_RETRIES-th raises (the fetch
\* of that page fails, after exactly MAX_RETRIES requests and MAX_RETRIES - 1
\* sleeps).  No 429 body is ever part of the page data.
C4_ThrottledPageFails ==
    prog = "pages" =>
        /\ \A u \in 1..NUM_PAGES :
              Throttled(u) =>
                  /\ u = unit
                  /\ Cardinality(ReqIdx(u)) <= PAGE_MAX_RETRIES
                  /\ \A i \in ReqIdx(u) :
                        IF Cardinality({j \in ReqIdx(u) : j <= i}) < PAGE_MAX_RETRIES
                        THEN /\ log[i + 1] = SleepEvent(PAGE_RETRY_DELAY)
                             /\ i + 2 \in DOMAIN log => i + 2 \in ReqIdx(u)
                        ELSE /\ i = Len(log)
                             /\ phase = "raised"
                  /\ phase = "raised" =>
                        /\ RetriedExactly(u, PAGE_MAX_RETRIES)
                        /\ Cardinality({i \in ReqIdx(u) :
                                           /\ i + 1 \in DOMAIN log
                                           /\ log[i + 1] = RetrySleep})
                              = PAGE_MAX_RETRIES - 1
        /\ \A k \in DOMAIN all_data : all_data[k].status # 429

\* C4 witness: a later page was throttled MAX_RETRIES times and the fetch
\* raised, after earlier pages had been fetched.
C4_Witness ==
    /\ prog = "pages"
    /\ phase = "raised"
    /\ unit > 1
    /\ Throttled(unit)
    /\ Len(all_data) = unit - 1

\* C5 (as claimed): a failed page does not abort fetch_all_pages: the batch
\* never ends by an exception, and when it is over every page up to NUM_PAGES
\* was requested and all_data holds exactly the pages answered with success.
C5_PageFailureIsolated ==
    prog = "pages" =>
        /\ phase # "raised"
        /\ phase # "running" =>
              /\ \A u \in 1..NUM_PAGES : ReqIdx(u) # {}
              /\ {all_data[k].unit : k \in DOMAIN all_data}
                    = {u \in 1..NUM_PAGES :
                          \E i \in ReqIdx(u) :
                              log[i][3].status = 200 /\ log[i][3].json}

\* The coin at position u got a successful response whose body parsed.
CoinFetched(u) ==
    \E i \in ReqIdx(u) : log[i][3].status = 200 /\ log[i][3].json

\* C6 (as claimed): fetch_all_daily_prices never ends by an exception, it
\* requests the coins of TOP_COIN_IDS in list order, and the keys of the
\* returned mapping are exactly the coins whose fetch succeeded.
C6_CoinFailureIsolated ==
    prog = "coins" =>
        /\ phase # "raised"
        /\ \A i, j \in AllReqIdx : i < j => log[i][2] <= log[j][2]
        /\ phase = "returned" =>
              /\ \A u \in 1..Len(TOP_COIN_IDS) : ReqIdx(u) # {}
              /\ ResultKeys = {TOP_COIN_IDS[u] : u \in
                                  {v \in 1..Len(TOP_COIN_IDS) : CoinFetched(v)}}

\* Position i of the log is a request answered by an HTTP error other than 429.
HardError(i) ==
    /\ IsReq(i)
    /\ RaisesForStatus(log[i][3].status)
    /\ log[i][3].status # 429

\* C7: in fetch_page and fetch_market_chart a response with an error status
\* other than 429 ends the fetch of its unit at once as a failure: the unit is
\* not requested again, no RETRY_DELAY sleep follows the response, and the
\* unit yields no data (fetch_page raises; the coin is no key of result).
C7_HardErrorNotRetried ==
    prog \in {"pages", "coins"} =>
        \A i \in DOMAIN log :
            HardError(i) =>
                /\ \A j \in ReqIdx(log[i][2]) : j <= i
                /\ i + 1 \in DOMAIN log => log[i + 1] # RetrySleep
                /\ prog = "pages" =>
                      /\ phase = "raised"
                      /\ i = Len(log)
                      /\ \A k \in DOMAIN all_data : all_data[k].unit # log[i][2]
                /\ prog = "coins" =>
                      /\ unit > log[i][2]
                      /\ TOP_COIN_IDS[log[i][2]] \notin ResultKeys

\* C7 witness: a page answered 500 after a throttled attempt, ending
\* fetch_page.
C7_Witness ==
    /\ prog = "pages"
    /\ \E i \in DOMAIN log :
          /\ HardError(i)
          /\ i > 2
          /\ log[i - 1] = SleepEvent(PAGE_RETRY_DELAY)
          /\ log[i - 2][2] = log[i][2]

\* C8: in each batch loop exactly one inter-request delay is slept between
\* the last request of a unit and the first request of the next unit,
\* whatever the previous unit's outcome and besides any retry sleep; none is
\* slept between two requests of the same unit, before the first request, or
\* after the last unit.
C8_OneDelayBetweenUnits ==
    /\ \A i \in AllReqIdx :
          LET later == {j \in AllReqIdx : j > i}
              after == {k \in DOMAIN log : k > i /\ log[k] = UnitDelay}
          IN  IF later = {}
              THEN /\ Cardinality(after) <= 1
                   /\ phase # "running" => after = {}
              ELSE LET j == CHOOSE x \in later : \A y \in later : x <= y
                       between == {k \in after : k < j}
                   IN  IF log[j][2] = log[i][2]
                       THEN between = {}
                       ELSE /\ log[j][2] = log[i][2] + 1
                            /\ Cardinality(between) = 1
    /\ \A k \in DOMAIN log :
          log[k] = UnitDelay => \E i \in AllReqIdx : i < k

\* C8 witness: a batch of coins is over in which a coin was throttled (a
\* retry sleep was slept), a coin failed on a 500 and a coin was fetched.
C8_Witness ==
    /\ prog = "coins"
    /\ phase = "returned"
    /\ \E i \in AllReqIdx : log[i][3].status = 429 /\ log[i + 1] = RetrySleep
    /\ \E i \in AllReqIdx : log[i][3].status = 500 /\ i < Len(log)
    /\ result # <<>>

---------------------------------------------------------------------------
(* Claims about process_prices_to_rows.                                    *)

\* The UTC calendar day (days since the epoch) of a timestamp.
DayOf(ts_ms) == ts_ms \div MsPerDay

\* The samples of a raw_data item are given in increasing timestamp order.
Ordered(prices) ==
    \A i, j \in DOMAIN prices : i < j => prices[i][1] <= prices[j][1]

\* The rows emitted for a coin, in the order emitted.
RowsFor(coin_id) == SelectSeq(rows, LAMBDA r : r.coin_id = coin_id)

\* Days of a sample list in ascending order.
RECURSIVE AscendingDays(_)
AscendingDays(days) ==
    IF days = {} THEN <<>>
    ELSE LET d == CHOOSE x \in days : \A y \in days : x <= y
         IN  <<d>> \o AscendingDays(days \ {d})

\* The price of the sample of day d that comes last in the list.
LastListed(prices, d) ==
    prices[MaxOf({i \in DOMAIN prices : DayOf(prices[i][1]) = d})][2]

\* The prices of the samples of day d with the greatest timestamp.
LatestOf(prices, d) ==
    {prices[i][2] : i \in {k \in DOMAIN prices :
        /\ DayOf(prices[k][1]) = d
        /\ \A m \in DOMAIN prices :
              DayOf(prices[m][1]) = d => prices[m][1] <= prices[k][1]}}

\* One row per UTC day that has samples, the days ascending, each with the
\* date of its day and the price given by PriceOn(prices, d).
DailyRows(coin_id, prices, PriceOn(_, _)) ==
    LET days == AscendingDays({DayOf(prices[i][1]) : i \in DOMAIN prices})
    IN  [k \in 1..Len(days) |->
            [coin_id |-> coin_id,
             date |-> StrfDate(UtcDate(days[k] * MsPerDay)),
             price_usd |-> PriceOn(prices, days[k])]]

RawPrice(prices, d) == LastListed(prices, d)
RoundedPrice(prices, d) == Round6(LastListed(prices, d))

\* C9 (as claimed): for every coin whose samples are in increasing timestamp
\* order the rows emitted are one per UTC day with samples, in strictly
\* ascending date order, each with the value of the last sample of its day.
C9_LastSampleValue ==
    normalized =>
        \A i \in DOMAIN raw_data :
            Ordered(PricesOf(raw_data[i][2])) =>
                RowsFor(raw_data[i][1])
                    = DailyRows(raw_data[i][1], PricesOf(raw_data[i][2]), RawPrice)

\* C9 (amended): as above, each row with the value of the last sample of its
\* day rounded to 6 decimals.
C9_LastSampleRounded ==
    normalized =>
        \A i \in DOMAIN raw_data :
            Ordered(PricesOf(raw_data[i][2])) =>
                LET got == RowsFor(raw_data[i][1])
                    prices == PricesOf(raw_data[i][2])
                IN  /\ got = DailyRows(raw_data[i][1], prices, RoundedPrice)
                    /\ Len(got) = Cardinality({DayOf(prices[k][1]) : k \in DOMAIN prices})
                    /\ \A a, b \in DOMAIN got : a < b => StrLess(got[a].date, got[b].date)

\* C9 witness: a coin with two samples of different rounded price on one day
\* and a sample on the next day, in timestamp order, has been normalized
\* after another coin.
C9_Witness ==
    /\ normalized
    /\ Len(raw_data) = 2
    /\ LET prices == PricesOf(raw_data[2][2])
       IN  /\ Len(prices) = 3
           /\ Ordered(prices)
           /\ DayOf(prices[1][1]) = DayOf(prices[2][1])
           /\ prices[1][1] < prices[2][1]
           /\ Round6(prices[1][2]) # Round6(prices[2][2])
           /\ prices[2][2] # Round6(prices[2][2])
           /\ DayOf(prices[3][1]) > DayOf(prices[2][1])
           /\ Len(RowsFor(raw_data[2][1])) = 2

\* C10 (as claimed): for any list of samples, ordered or not, the row of a
\* coin and UTC day carries the (rounded) price of the sample with the
\* greatest timestamp within that day.
C10_ChronologicallyLast ==
    normalized =>
        \A i \in DOMAIN raw_data :
            LET prices == PricesOf(raw_data[i][2])
                got == RowsFor(raw_data[i][1])
            IN  \A k \in DOMAIN prices :
                    \E r \in DOMAIN got :
                        /\ got[r].date = StrfDate(UtcDate(prices[k][1]))
                        /\ got[r].price_usd \in
                              {Round6(p) : p \in LatestOf(prices, DayOf(prices[k][1]))}

---------------------------------------------------------------------------
(* The idempotent store (sql_operation.py) over one SQLite file.           *)
(*                                                                         *)
(* `db` is what the file holds for every connection: committed data.  The  *)
(* writing call works on its own connection `conn`; python's sqlite3 opens *)
(* a transaction before the first INSERT / REPLACE / DELETE and the call's *)
(* changes stay in conn.view until a commit copies them to `db`.  A call   *)
(* is modelled statement by statement, so that a reader, a failure or the  *)
(* end of the process can fall between any two statements.                 *)

\* None bound to a numeric column: SQL NULL.  Prices are positive.
NULL == -1

\* Two calendar days, as the 'YYYY-MM-DD' text the normalizers emit.
D1 == StrfDate(<<2024, 1, 1>>)
D2 == StrfDate(<<2024, 1, 2>>)

\* The functions of sql_operation.py that write.
InsertFns == {"insert_crypto_prices", "insert_oil_prices", "insert_stock_prices"}
CreateFns == {"create_cryptocurrencies_table", "create_crypto_prices_table",
              "create_oil_price_table", "create_stock_price_table"}

\* The table a function of sql_operation.py works on.
TableOf(fn) ==
    CASE fn \in {"create_cryptocurrencies_table", "push_dataframe_to_table",
                 "select_cryptocurrencies"} -> "Cryptocurrencies"
      [] fn \in {"create_crypto_prices_table", "insert_crypto_prices"} -> "Crypto_prices"
      [] fn \in {"create_oil_price_table", "insert_oil_prices",
                 "select_oil_price"} -> "oil_price"
      [] fn \in {"create_stock_price_table", "insert_stock_prices",
                 "select_stock_price"} -> "stock_price"

\* PRIMARY KEY of each table.
KeyOf(t, r) ==
    CASE t = "Cryptocurrencies" -> <<r.id>>
      [] t = "Crypto_prices" -> <<r.coin_id, r.date>>
      [] t = "oil_price" -> <<r.date>>
      [] t = "stock_price" -> <<r.ticker, r.date>>

\* The NOT NULL constraints on the numeric columns of each table.
NotNull(t, r) ==
    CASE t = "Cryptocurrencies" -> TRUE
      [] t = "Crypto_prices" -> r.price_usd # NULL
      [] t = "oil_price" -> r.price_usd # NULL
      [] t = "stock_price" ->
            /\ r.open # NULL
            /\ r.high # NULL
            /\ r.low # NULL
            /\ r.close # NULL
            /\ r.volume # NULL

\* What the writing connection reads: its own uncommitted changes if it is
\* in a transaction, the file otherwise.
View == IF conn.txn THEN conn.view ELSE db

\* The rows of table T that hold the primary key of r.
Conflicts(t, T, r) == {x \in BagToSet(T.rows) : KeyOf(t, x) = KeyOf(t, r)}

\* Mutant of SqlCreateIfNotExists: CREATE OR REPLACE, the table is made anew.
SqlCreate_replaces(T) == EmptyTable

\* CREATE TABLE IF NOT EXISTS
SqlCreateIfNotExists(T) == IF T.exists THEN T ELSE EmptyTable

\* Mutant of SqlDelete: nothing is deleted.
SqlDelete_keeps_rows(T) == T

\* DELETE FROM <table>
SqlDelete(T) == [T EXCEPT !.rows = EmptyBag]

\* INSERT INTO <table>: the caller has checked the constraints.
SqlInsert(t, T, r) == [T EXCEPT !.rows = @ (+) SetToBag({r})]

\* Mutant of SqlReplace: the row is added and a row holding its key stays.
SqlReplace_keeps_old(t, T, r) == SqlInsert(t, T, r)

\* Mutant of SqlReplace: INSERT OR IGNORE, a key already stored keeps its row.
SqlReplace_ignores(t, T, r) ==
    IF Conflicts(t, T, r) # {} THEN T ELSE SqlInsert(t, T, r)

\* Mutant of SqlReplace: the table is emptied before the row is inserted.
SqlReplace_truncates(t, T, r) == SqlInsert(t, [T EXCEPT !.rows = EmptyBag], r)

\* REPLACE INTO <table>: the rows holding the key of r are deleted, then r is
\* inserted.
SqlReplace(t, T, r) ==
    LET kept == BagToSet(T.rows) \ Conflicts(t, T, r)
    IN  SqlInsert(t, [T EXCEPT !.rows = [x \in kept |-> T.rows[x]]], r)

\* Mutant of ReplaceRaises: FOREIGN KEY (coin_id) REFERENCES
\* Cryptocurrencies(id) is enforced.
ReplaceRaises_foreign_key(t, T, r) ==
    \/ ~ T.exists
    \/ ~ NotNull(t, r)
    \/ /\ t = "Crypto_prices"
       /\ r.coin_id \notin {x.id : x \in BagToSet(View["Cryptocurrencies"].rows)}

\* Mutant of ReplaceRaises: a plain INSERT, a key already stored raises.
ReplaceRaises_on_conflict(t, T, r) ==
    \/ ~ T.exists
    \/ ~ NotNull(t, r)
    \/ Conflicts(t, T, r) # {}

\* Whether REPLACE INTO raises on r: no such table, or NULL in a NOT NULL
\* column (REPLACE resolves only the key conflict).
ReplaceRaises(t, T, r) == ~ T.exists \/ ~ NotNull(t, r)

\* Whether INSERT INTO raises on r: as REPLACE, or the key is taken.
InsertRaises(t, T, r) == ReplaceRaises(t, T, r) \/ Conflicts(t, T, r) # {}

\* The exceptions of sqlite3 a statement raises, and the one raised by a
\* statement that fails on table T: no such table, or a constraint.
Exceptions == {"IntegrityError", "OperationalError"}
ErrorOf(T) == IF T.exists THEN "IntegrityError" ELSE "OperationalError"

\* df["last_updated"].astype(str) on one row of df: the date becomes text.
astype_str(r) == [r EXCEPT !.last_updated = StrfDate(@)]

\* The rows of the call's argument that hold key k of table t.
RowsWithKey(t, arg, k) == {arg[j] : j \in {i \in DOMAIN arg : KeyOf(t, arg[i]) = k}}

\* The history entry of every key of the batch `arg` replaces the key's entry.
HistAfter(h, t, arg) ==
    LET keys == {KeyOf(t, arg[j]) : j \in DOMAIN arg}
    IN  [h EXCEPT ![t] = {e \in @ : e.key \notin keys}
                            \cup {[key |-> k, vals |-> RowsWithKey(t, arg, k)] : k \in keys}]

\* conn = get_connection() at the start of a writing function called without
\* a connection.
Begin(fn, arg) ==
    /\ call.pc = "idle"
    /\ call' = [fn |-> fn, arg |-> arg, pc |-> "create", i |-> 1, exc |-> "none",
                 own_conn |-> TRUE]
    /\ conn' = [open |-> TRUE, txn |-> FALSE, view |-> FreshDb]
    /\ pre' = db
    /\ ret' = "none"
    /\ repeat' = FALSE
    /\ UNCHANGED <<db, hist, seen, qpre>>
    /\ UNCHANGED <<fetchVars, normVars, sent>>

\* The longest batch (rows, df) a call is given.
MaxBatch == 2

\* The canonical rows the normalizers hand over, and for each historical
\* table one row whose price is None.
CryptoRows ==
    {[coin_id |-> "bitcoin", date |-> D1, price_usd |-> 42000],
     [coin_id |-> "bitcoin", date |-> D1, price_usd |-> 43000],
     [coin_id |-> "bitcoin", date |-> D2, price_usd |-> 42000],
     [coin_id |-> "ethereum", date |-> D1, price_usd |-> 3000],
     [coin_id |-> "bitcoin", date |-> D1, price_usd |-> NULL]}

OilRows ==
    {[date |-> D1, price_usd |-> 80],
     [date |-> D1, price_usd |-> 81],
     [date |-> D2, price_usd |-> 80],
     [date |-> D1, price_usd |-> NULL]}

Bar(ticker, date, p, close) ==
    [date |-> date, open |-> p, high |-> p + 2, low |-> p - 1, close |-> close,
     volume |-> 1000, ticker |-> ticker]

StockRows ==
    {Bar("GSPC", D1, 5000, 5001),
     Bar("GSPC", D1, 5100, 5101),
     Bar("IXIC", D1, 5000, 5001),
     Bar("GSPC", D1, 5000, NULL)}

\* Rows of the snapshot frame df (filter_columns output: last_updated is a
\* date), a few of the columns.
Coin(id, symbol, price, day) ==
    [id |-> id, symbol |-> symbol, current_price |-> price, last_updated |-> day]

SnapshotRows ==
    {Coin("bitcoin", "btc", 42000, <<2024, 1, 1>>),
     Coin("bitcoin", "btc", 43000, <<2024, 1, 2>>),
     Coin("ethereum", "eth", 3000, <<2024, 1, 1>>)}

\* The lists of at most MaxBatch rows out of R.
Batches(R) == UNION {[1..n -> R] : n \in 0..MaxBatch}

\* insert_crypto_prices(rows), called without a connection (coin_daily_price.py).
insert_crypto_prices ==
    /\ prog = "insert_crypto_prices"
    /\ \E b \in Batches(CryptoRows) : Begin("insert_crypto_prices", b)

\* insert_oil_prices(rows), called without a connection (oil_price.py).
insert_oil_prices ==
    /\ prog = "insert_oil_prices"
    /\ \E b \in Batches(OilRows) : Begin("insert_oil_prices", b)

\* insert_stock_prices(rows), called without a connection (stock_price.py).
insert_stock_prices ==
    /\ prog = "insert_stock_prices"
    /\ \E b \in Batches(StockRows) : Begin("insert_stock_prices", b)

\* push_dataframe_to_table(df), called without a connection.
push_dataframe_to_table ==
    /\ call.pc = "idle"
    /\ \E b \in Batches(SnapshotRows) : Begin("push_dataframe_to_table", b)

\* create_cryptocurrencies_table(), create_crypto_prices_table(),
\* create_oil_price_table(), create_stock_price_table() called on their own.
create_table ==
    /\ call.pc = "idle"
    /\ \E fn \in CreateFns : Begin(fn, <<>>)

\* Where a call goes on after its table was created.
AfterCreate(c) ==
    IF c.fn \in CreateFns THEN "finally"
    ELSE IF c.fn = "push_dataframe_to_table" THEN "delete"
    ELSE IF Len(c.arg) = 0 THEN "commit"
    ELSE "executemany"

\* conn.execute("CREATE TABLE IF NOT EXISTS ..."); conn.commit(): the body of
\* the four create_*_table functions.  On a connection the function opened
\* itself no transaction is open and the statement changes the file at
\* once; on a connection handed in by the caller the commit also commits
\* whatever that connection has pending.
create_table_if_not_exists ==
    /\ call.pc = "create"
    /\ db' = [View EXCEPT ![TableOf(call.fn)] = SqlCreateIfNotExists(@)]
    /\ conn' = [conn EXCEPT !.txn = FALSE, !.view = FreshDb]
    /\ call' = [call EXCEPT !.pc = AfterCreate(call)]
    /\ UNCHANGED <<ret, pre, hist, repeat, seen, qpre>>
    /\ UNCHANGED <<fetchVars, normVars, sent>>

\* conn.executemany("REPLACE INTO ...", rows), row call.i: sqlite3 opens a
\* transaction before the first row; a row that raises ends executemany and
\* leaves the transaction pending.
executemany ==
    /\ call.pc = "executemany"
    /\ LET t == TableOf(call.fn)
           r == call.arg[call.i]
       IN  IF ReplaceRaises(t, View[t], r)
           THEN /\ conn' = [conn EXCEPT !.txn = TRUE, !.view = View]
                /\ call' = [call EXCEPT !.pc = "finally",
                                        !.exc = ErrorOf(View[t])]
           ELSE /\ conn' = [conn EXCEPT !.txn = TRUE,
                                        !.view = [View EXCEPT ![t] = SqlReplace(t, @, r)]]
                /\ call' = [call EXCEPT !.i = @ + 1,
                                        !.pc = IF call.i = Len(call.arg)
                                               THEN "commit" ELSE @]
    /\ UNCHANGED <<db, ret, pre, hist, repeat, seen, qpre>>
    /\ UNCHANGED <<fetchVars, normVars, sent>>

\* Mutant of delete_from: the DELETE is committed at once.
delete_from_commits ==
    /\ call.pc = "delete"
    /\ db' = [db EXCEPT ![TableOf(call.fn)] = SqlDelete(@)]
    /\ call' = [call EXCEPT !.pc = "to_sql"]
    /\ UNCHANGED <<conn, ret, pre, hist, repeat, seen, qpre>>
    /\ UNCHANGED <<fetchVars, normVars, sent>>

\* conn.execute("DELETE FROM Cryptocurrencies"): opens the transaction.
delete_from ==
    /\ call.pc = "delete"
    /\ LET t == TableOf(call.fn)
       IN  IF View[t].exists
           THEN /\ conn' = [conn EXCEPT !.txn = TRUE,
                                        !.view = [View EXCEPT ![t] = SqlDelete(@)]]
                /\ call' = [call EXCEPT !.pc = "to_sql"]
           ELSE /\ conn' = conn
                /\ call' = [call EXCEPT !.pc = "finally",
                                        !.exc = ErrorOf(View[t])]
    /\ UNCHANGED <<db, ret, pre, hist, repeat, seen, qpre>>
    /\ UNCHANGED <<fetchVars, normVars, sent>>

\* df.to_sql("Cryptocurrencies", conn, if_exists="append", index=False), row
\* call.i of df after astype(str): pandas inserts the rows with INSERT INTO
\* in the connection's transaction, commits after the last row, and rolls
\* the transaction back when a row raises.
to_sql ==
    /\ call.pc = "to_sql"
    /\ LET t == TableOf(call.fn)
       IN  IF call.i > Len(call.arg)
           THEN /\ db' = View
                /\ conn' = [conn EXCEPT !.txn = FALSE, !.view = FreshDb]
                /\ call' = [call EXCEPT !.pc = "commit"]
           ELSE LET r == astype_str(call.arg[call.i])
                IN  IF InsertRaises(t, View[t], r)
                    THEN /\ db' = db
                         /\ conn' = [conn EXCEPT !.txn = FALSE, !.view = FreshDb]
                         /\ call' = [call EXCEPT !.pc = "finally",
                                                 !.exc = ErrorOf(View[t])]
                    ELSE /\ db' = db
                         /\ conn' = [conn EXCEPT !.txn = TRUE,
                                                 !.view = [View EXCEPT ![t] = SqlInsert(t, @, r)]]
                         /\ call' = [call EXCEPT !.i = @ + 1]
    /\ UNCHANGED <<ret, pre, hist, repeat, seen, qpre>>
    /\ UNCHANGED <<fetchVars, normVars, sent>>

\* conn.commit() of insert_* and push_dataframe_to_table.
commit ==
    /\ call.pc = "commit"
    /\ db' = View
    /\ conn' = [conn EXCEPT !.txn = FALSE, !.view = FreshDb]
    /\ hist' = IF call.fn \in InsertFns
               THEN HistAfter(hist, TableOf(call.fn), call.arg)
               ELSE hist
    /\ call' = [call EXCEPT !.pc = "finally"]
    /\ UNCHANGED <<ret, pre, repeat, seen, qpre>>
    /\ UNCHANGED <<fetchVars, normVars, sent>>

\* Mutant of close: closing commits the pending transaction.
close_commits ==
    /\ call.pc = "finally"
    /\ db' = View
    /\ conn' = Closed
    /\ call' = [call EXCEPT !.pc = "returned", !.i = 0, !.exc = "none"]
    /\ ret' = IF call.exc = "none" THEN "ok" ELSE call.exc
    /\ UNCHANGED <<pre, hist, repeat, seen, qpre>>
    /\ UNCHANGED <<fetchVars, normVars, sent>>

\* finally: if own_conn: conn.close().  Closing rolls a pending transaction
\* back; a connection handed in by the caller is left as it is, a pending
\* transaction included.  The function then returns, or the exception goes
\* on to the caller (call.i then stays at the row that raised).
close ==
    /\ call.pc = "finally"
    /\ conn' = IF call.own_conn THEN Closed ELSE conn
    /\ call' = [call EXCEPT !.pc = "returned",
                            !.i = IF call.own_conn THEN 0 ELSE @,
                            !.exc = "none"]
    /\ ret' = IF call.exc = "none" THEN "ok" ELSE call.exc
    /\ UNCHANGED <<db, pre, hist, repeat, seen, qpre>>
    /\ UNCHANGED <<fetchVars, normVars, sent>>

\* The statement the call is about to execute raises an I/O error
\* (sqlite3.OperationalError) instead.
io_error ==
    /\ call.pc \in {"executemany", "delete", "to_sql"}
    /\ conn' = IF call.pc = "to_sql"
               THEN [conn EXCEPT !.txn = FALSE, !.view = FreshDb]
               ELSE conn
    /\ call' = [call EXCEPT !.pc = "finally", !.exc = "OperationalError"]
    /\ UNCHANGED <<db, ret, pre, hist, repeat, seen, qpre>>
    /\ UNCHANGED <<fetchVars, normVars, sent>>

\* The process ends in the middle of a call (killed, power loss): nothing
\* is committed any more, SQLite rolls the pending transaction back.
interrupt ==
    /\ call.pc \notin {"idle", "returned"}
    /\ conn' = Closed
    /\ call' = [call EXCEPT !.pc = "returned", !.i = 0, !.exc = "none"]
    /\ ret' = "killed"
    /\ UNCHANGED <<db, pre, hist, repeat, seen, qpre>>
    /\ UNCHANGED <<fetchVars, normVars, sent>>

\* The script is run again on the same input: the call that has just
\* returned is made once more, with the same argument.
run_again ==
    /\ call.pc = "returned"
    /\ ret = "ok"
    /\ call' = [call EXCEPT !.pc = "create", !.i = 1]
    /\ conn' = [open |-> TRUE, txn |-> FALSE, view |-> FreshDb]
    /\ pre' = db
    /\ ret' = "none"
    /\ repeat' = TRUE
    /\ UNCHANGED <<db, hist, seen, qpre>>
    /\ UNCHANGED <<fetchVars, normVars, sent>>

\* The run is over; a later run starts from what the file holds.
next_run ==
    /\ call.pc = "returned"
    /\ call' = NoCall
    /\ pre' = db
    /\ ret' = "none"
    /\ repeat' = FALSE
    /\ UNCHANGED <<db, conn, hist, seen, qpre>>
    /\ UNCHANGED <<fetchVars, normVars, sent>>

\* What an earlier run has left in a table: one row.
SeedRows(t) ==
    CASE t = "Cryptocurrencies" ->
            SetToBag({astype_str(Coin("bitcoin", "btc", 42000, <<2024, 1, 1>>))})
      [] t = "Crypto_prices" ->
            SetToBag({[coin_id |-> "bitcoin", date |-> D1, price_usd |-> 42000]})
      [] t = "oil_price" -> SetToBag({[date |-> D1, price_usd |-> 80]})
      [] t = "stock_price" -> SetToBag({Bar("GSPC", D1, 5000, 5001)})

\* The file in which the tables S hold their earlier row and the other
\* tables were never created, and the history that goes with it.
SeedDb(S) ==
    [t \in Tables |-> IF t \in S THEN [exists |-> TRUE, rows |-> SeedRows(t)]
                      ELSE NoTable]
SeedHist(S) ==
    [t \in Tables |->
        IF t \in S \cap HistTables
        THEN {[key |-> KeyOf(t, r), vals |-> {r}] : r \in BagToSet(SeedRows(t))}
        ELSE {}]

\* The store specification: a script that writes one historical table runs
\* its store calls, and the snapshot refresh and the table creations of
\* sql_operation.main, any number of times, on a file in which the other
\* historical tables were filled by earlier runs.
StoreInit(S) ==
    /\ phase = "returned"
    /\ unit = 1
    /\ attempt = 0
    /\ log = <<>>
    /\ all_data = <<>>
    /\ result = <<>>
    /\ df = EmptyFrame
    /\ frames = <<>>
    /\ raw_data = <<>>
    /\ rows = <<>>
    /\ normalized = FALSE
    /\ db = SeedDb(S)
    /\ conn = Closed
    /\ call = NoCall
    /\ ret = "none"
    /\ pre = SeedDb(S)
    /\ hist = SeedHist(S)
    /\ repeat = FALSE
    /\ seen = NotSeen
    /\ qpre = SeedDb(S)
    /\ sent = <<>>

InitStore ==
    /\ prog \in InsertFns
    /\ StoreInit(HistTables \ {TableOf(prog)})

WriterStep ==
    \/ create_table_if_not_exists
    \/ executemany
    \/ delete_from
    \/ to_sql
    \/ commit
    \/ close
    \/ io_error
    \/ interrupt

WriterCall ==
    \/ insert_crypto_prices
    \/ insert_oil_prices
    \/ insert_stock_prices
    \/ push_dataframe_to_table
    \/ create_table

NextStore == WriterCall \/ WriterStep \/ run_again \/ next_run

SpecStore == InitStore /\ [][NextStore]_vars

---------------------------------------------------------------------------
(* The query layer: run_query, select_* (sql_operation.py) and run_sql     *)
(* (data_report.py).  Each call opens its own connection, hands one        *)
(* statement to pd.read_sql and closes the connection; it reads `db`, the  *)
(* committed contents, and is one step: it falls between two statements of *)
(* a writing call, never inside one.                                       *)

\* What a query string can be: a SELECT on a table, text that is no SQL, a
\* data-changing statement (DELETE FROM t), a schema-changing one (DROP
\* TABLE t).
ReadKinds == {"select", "malformed"}
StatementKinds == {"select", "malformed", "dml", "ddl"}
Queries(kinds) == [kind : kinds, table : Tables]

\* The call raised on query q (pandas DatabaseError, or TypeError on a
\* statement without a result set): neither function has an except clause,
\* the exception goes on to the caller.  d is the file afterwards.
Failed(q, d) ==
    [kind |-> "error", query |-> q.kind, table |-> "none", rows |-> EmptyBag,
     at |-> "idle", i |-> 0, after |-> d]

\* Mutant of read_sql: the query reads the writer's uncommitted changes.
read_sql_uncommitted(fn, q) ==
    /\ qpre' = db
    /\ db' = db
    /\ seen' = IF q.kind = "select" /\ View[q.table].exists
               THEN [kind |-> "rows", query |-> q.kind, table |-> q.table,
                     rows |-> View[q.table].rows,
                     at |-> call.pc, i |-> call.i, after |-> db]
               ELSE Failed(q, db)
    /\ UNCHANGED <<conn, call, ret, pre, hist, repeat>>
    /\ UNCHANGED <<fetchVars, normVars, sent>>

\* conn = get_connection(); pd.read_sql(query, conn, params); conn.close().
\*   SELECT: the committed rows, or an error if the table does not exist.
\*   DELETE: runs in a transaction of this connection, read_sql raises
\*     because the cursor has no result set, close() rolls back.
\*   DROP TABLE: sqlite3 opens no transaction for it, the statement changes
\*     the file at once (unless a writer's transaction locks the file);
\*     read_sql raises afterwards.
read_sql(fn, q) ==
    /\ qpre' = db
    /\ LET T == db[q.table]
           dropped == [db EXCEPT ![q.table] = NoTable]
       IN  CASE q.kind = "select" /\ T.exists ->
                    /\ db' = db
                    /\ seen' = [kind |-> "rows", query |-> q.kind, table |-> q.table,
                                rows |-> T.rows,
                                at |-> call.pc, i |-> call.i, after |-> db]
             [] q.kind = "ddl" /\ T.exists /\ ~ conn.txn ->
                    /\ db' = dropped
                    /\ seen' = Failed(q, dropped)
             [] OTHER ->
                    /\ db' = db
                    /\ seen' = Failed(q, db)
    /\ UNCHANGED <<conn, call, ret, pre, hist, repeat>>
    /\ UNCHANGED <<fetchVars, normVars, sent>>

\* run_query(query, params) with a query of one of the kinds.
run_query(kinds) == \E q \in Queries(kinds) : read_sql("run_query", q)

\* run_sql(query, params) of data_report.py.
run_sql(kinds) == \E q \in Queries(kinds) : read_sql("run_sql", q)

\* select_cryptocurrencies(), select_oil_price(), select_stock_price().
select_cryptocurrencies ==
    read_sql("select_cryptocurrencies",
             [kind |-> "select", table |-> TableOf("select_cryptocurrencies")])

select_oil_price ==
    read_sql("select_oil_price",
             [kind |-> "select", table |-> TableOf("select_oil_price")])

select_stock_price ==
    read_sql("select_stock_price",
             [kind |-> "select", table |-> TableOf("select_stock_price")])

\* The reader specification: every table holds the row of an earlier run;
\* one writing call is made, and readers run SELECTs (or text that is no
\* SQL) between its statements.
InitRead ==
    /\ prog \in InsertFns
    /\ StoreInit(Tables)

OneWriterCall == call.fn = "none" /\ WriterCall

NextRead ==
    \/ OneWriterCall
    \/ WriterStep
    \/ run_query(ReadKinds)
    \/ run_sql(ReadKinds)
    \/ select_cryptocurrencies
    \/ select_oil_price
    \/ select_stock_price

SpecRead == InitRead /\ [][NextRead]_vars

\* The query specification: the query layer alone on such a file; the text
\* handed to run_query and run_sql (`query: str`, nothing checks it) is any
\* statement.
NextQuery ==
    \/ run_query(StatementKinds)
    \/ run_sql(StatementKinds)
    \/ select_cryptocurrencies
    \/ select_oil_price
    \/ select_stock_price

SpecQuery == InitRead /\ [][NextQuery]_vars

---------------------------------------------------------------------------
(* The store's contract.                                                   *)

\* The distinct rows of a table, and the keys they hold.
RowSet(T) == BagToSet(T.rows)
KeySet(t, T) == {KeyOf(t, x) : x \in RowSet(T)}

\* No row of table T occurs twice and no two rows of it hold the same key.
OneRowPerKey(t, T) ==
    /\ \A x \in RowSet(T) : T.rows[x] = 1
    /\ \A x, y \in RowSet(T) : KeyOf(t, x) = KeyOf(t, y) => x = y

\* A writing call has returned to its caller without raising.
Returned(fn) == call.pc = "returned" /\ call.fn = fn /\ ret = "ok"

\* C11: whatever insert_crypto_prices, insert_oil_prices and
\* insert_stock_prices calls were made, each historical table holds exactly
\* one row for every key a call has stored, and that row is a row of the most
\* recent call that contained the key.
C11_OneRowPerKeyLatestCall ==
    \A t \in HistTables :
        /\ OneRowPerKey(t, db[t])
        /\ KeySet(t, db[t]) = {e.key : e \in hist[t]}
        /\ \A x \in RowSet(db[t]) :
              \E e \in hist[t] : e.key = KeyOf(t, x) /\ x \in e.vals

\* C11 witness: (bitcoin, 2024-01-01, 42000) was stored, then a call with
\* (bitcoin, 2024-01-01, 43000) returned: the key's only row holds 43000.
C11_Witness ==
    /\ Returned("insert_crypto_prices")
    /\ [coin_id |-> "bitcoin", date |-> D1, price_usd |-> 42000]
          \in RowSet(pre["Crypto_prices"])
    /\ \E j \in DOMAIN call.arg :
          call.arg[j] = [coin_id |-> "bitcoin", date |-> D1, price_usd |-> 43000]
    /\ {x \in RowSet(db["Crypto_prices"]) : x.coin_id = "bitcoin" /\ x.date = D1}
          = {[coin_id |-> "bitcoin", date |-> D1, price_usd |-> 43000]}

\* C12: ingestion is idempotent: when a call of insert_crypto_prices,
\* insert_oil_prices, insert_stock_prices or push_dataframe_to_table that
\* returned is made again with the same argument, from whatever the store
\* held, the second call leaves every table as the first call left it.
C12_Idempotent ==
    (call.pc = "returned" /\ repeat /\ ret \in {"ok"} \cup Exceptions) => db = pre

\* C12 witness: a batch of two rows was stored twice in a row into a table
\* that holds another key as well.
C12_Witness ==
    /\ \E fn \in InsertFns :
          /\ Returned(fn)
          /\ KeySet(TableOf(fn), db[TableOf(fn)])
                \ {KeyOf(TableOf(fn), call.arg[j]) : j \in DOMAIN call.arg} # {}
    /\ repeat
    /\ Len(call.arg) = MaxBatch

\* The keys of table t in the batch of the writing call in progress.
Incoming(t) ==
    IF call.fn \in InsertFns /\ TableOf(call.fn) = t
    THEN {KeyOf(t, call.arg[j]) : j \in DOMAIN call.arg}
    ELSE {}

\* C13: the historical tables are append/merge-only: no step of any
\* ingestion operation (an insert into any table, a snapshot refresh, a
\* table creation) removes a key from Crypto_prices, oil_price or
\* stock_price, or changes a row whose key is not in the incoming batch.
C13_AppendMergeOnly ==
    [][\A t \in HistTables :
          /\ KeySet(t, db[t]) \subseteq KeySet(t, db'[t])
          /\ \A x \in RowSet(db[t]) :
                KeyOf(t, x) \notin Incoming(t) => x \in RowSet(db'[t])]_vars

\* C13 witness: a batch without the key 2024-01-01 was stored into oil_price,
\* which held a row for that day: the row is as it was, beside the new one.
C13_Witness ==
    /\ Returned("insert_oil_prices")
    /\ [date |-> D1, price_usd |-> 81] \in RowSet(pre["oil_price"])
    /\ {call.arg[j].date : j \in DOMAIN call.arg} = {D2}
    /\ RowSet(db["oil_price"])
          = {[date |-> D1, price_usd |-> 81], [date |-> D2, price_usd |-> 80]}

\* The rows of df as to_sql binds them, each as often as df lists it.
FrameRows(arg) ==
    LET stored == {astype_str(arg[j]) : j \in DOMAIN arg}
    IN  [x \in stored |-> Cardinality({j \in DOMAIN arg : astype_str(arg[j]) = x})]

\* C14: after push_dataframe_to_table(df) has returned, Cryptocurrencies
\* holds exactly the rows of df (last_updated as text), whatever it held
\* before: a row whose id is not in df is gone.
C14_FullReplace ==
    Returned("push_dataframe_to_table") =>
        /\ db["Cryptocurrencies"].exists
        /\ db["Cryptocurrencies"].rows = FrameRows(call.arg)

\* C14 witness: the table held bitcoin, df lists ethereum only, and the
\* table now holds ethereum only.
C14_Witness ==
    /\ Returned("push_dataframe_to_table")
    /\ {x.id : x \in RowSet(pre["Cryptocurrencies"])} = {"bitcoin"}
    /\ {call.arg[j].id : j \in DOMAIN call.arg} = {"ethereum"}
    /\ {x.id : x \in RowSet(db["Cryptocurrencies"])} = {"ethereum"}

\* C15: while push_dataframe_to_table has not committed (after its DELETE,
\* part-way through the inserts, after a row raised), and when it was
\* interrupted or has raised, the committed Cryptocurrencies is the complete
\* prior snapshot; at no moment of the call is it anything but the prior or
\* the new snapshot.
C15_SnapshotAtomic ==
    call.fn = "push_dataframe_to_table" =>
        /\ db["Cryptocurrencies"].rows
              \in {pre["Cryptocurrencies"].rows, FrameRows(call.arg)}
        /\ (\/ call.pc \in {"create", "delete", "to_sql"}
            \/ call.exc # "none"
            \/ ret \in Exceptions)
              => db["Cryptocurrencies"].rows = pre["Cryptocurrencies"].rows

\* C15 witness: the new snapshot lists an id twice; the second INSERT raised
\* after the DELETE and the first INSERT, and the prior snapshot is intact.
C15_Witness ==
    /\ call.fn = "push_dataframe_to_table"
    /\ call.pc = "returned"
    /\ ret = "IntegrityError"
    /\ Len(call.arg) = 2
    /\ call.arg[1].id = call.arg[2].id
    /\ call.arg[1].current_price
          \notin {x.current_price : x \in RowSet(pre["Cryptocurrencies"])}
    /\ pre["Cryptocurrencies"].rows # EmptyBag
    /\ db["Cryptocurrencies"].rows = pre["Cryptocurrencies"].rows

\* C16: when insert_crypto_prices, insert_oil_prices or insert_stock_prices
\* fails on a row of its batch, the exception reaches the caller (a batch
\* with a row that breaks a constraint never returns normally), the rows of
\* every table are what they were before the call, and no row that the
\* batch would have added or changed is in the table.
C16_FailedBatchStoresNothing ==
    (call.pc = "returned" /\ call.fn \in InsertFns) =>
        LET t == TableOf(call.fn)
        IN  /\ ret = "ok" => \A j \in DOMAIN call.arg : NotNull(t, call.arg[j])
            /\ ret \in Exceptions =>
                  /\ \A u \in Tables : db[u].rows = pre[u].rows
                  /\ \A j \in DOMAIN call.arg :
                        call.arg[j] \notin RowSet(pre[t])
                            => call.arg[j] \notin RowSet(db[t])

\* C16 witness: the second row of a batch broke NOT NULL after the first row
\* had replaced a committed row; the committed row is back.
C16_Witness ==
    /\ call.pc = "returned"
    /\ call.fn = "insert_crypto_prices"
    /\ ret = "IntegrityError"
    /\ Len(call.arg) = 2
    /\ call.arg[1] = [coin_id |-> "bitcoin", date |-> D1, price_usd |-> 43000]
    /\ call.arg[2].price_usd = NULL
    /\ RowSet(db["Crypto_prices"])
          = {[coin_id |-> "bitcoin", date |-> D1, price_usd |-> 42000]}

\* C18: the create_*_table functions never fail, whether the table exists
\* or not, and however often and in whatever order they are called; at every
\* moment of the call the rows of every table are what they were, and when
\* the function returns its table exists.
C18_CreateIfAbsent ==
    call.fn \in CreateFns =>
        /\ call.exc = "none"
        /\ ret \notin Exceptions
        /\ \A t \in Tables : db[t].rows = pre[t].rows
        /\ \A t \in Tables \ {TableOf(call.fn)} : db[t] = pre[t]
        /\ (call.pc = "returned" /\ ret = "ok") => db[TableOf(call.fn)].exists

\* C18 witness: create_crypto_prices_table was called a second time in a
\* row, on a table with rows, and returned.
C18_Witness ==
    /\ Returned("create_crypto_prices_table")
    /\ repeat
    /\ pre["Crypto_prices"].exists
    /\ pre["Crypto_prices"].rows # EmptyBag
    /\ db = pre

\* The ids of the coins in the committed snapshot.
CoinIds(d) == {x.id : x \in RowSet(d["Cryptocurrencies"])}

\* C19: the price history does not depend on the snapshot: an
\* insert_crypto_prices batch raises a constraint error only for a row that
\* itself breaks NOT NULL, whether or not Cryptocurrencies has the coin;
\* push_dataframe_to_table raises one only for an id listed twice in df,
\* whatever price rows exist, and it leaves Crypto_prices as it was.
C19_PricesIndependentOfSnapshot ==
    /\ (call.fn = "insert_crypto_prices" /\ ret = "IntegrityError") =>
          \E j \in DOMAIN call.arg : ~ NotNull("Crypto_prices", call.arg[j])
    /\ Returned("insert_crypto_prices") =>
          \A j \in DOMAIN call.arg :
              KeyOf("Crypto_prices", call.arg[j]) \in KeySet("Crypto_prices", db["Crypto_prices"])
    /\ call.fn = "push_dataframe_to_table" =>
          /\ db["Crypto_prices"] = pre["Crypto_prices"]
          /\ ret = "IntegrityError" =>
                \E i, j \in DOMAIN call.arg : i # j /\ call.arg[i].id = call.arg[j].id

\* C19 witness: the snapshot was refreshed without bitcoin while
\* Crypto_prices held bitcoin rows, which are still there.
C19_Witness ==
    /\ Returned("push_dataframe_to_table")
    /\ "bitcoin" \in CoinIds(pre)
    /\ "bitcoin" \notin CoinIds(db)
    /\ \E x \in RowSet(db["Crypto_prices"]) : x.coin_id = "bitcoin"

\* The rows of table T after the rows arg[1..n] were stored by REPLACE INTO.
RECURSIVE Upserted(_, _, _, _)
Upserted(t, T, arg, n) ==
    IF n = 0 THEN T ELSE SqlReplace(t, Upserted(t, T, arg, n - 1), arg[n])

\* What table t holds once the writing call's whole batch is committed.
AfterBatch(t) ==
    IF call.fn \in InsertFns /\ TableOf(call.fn) = t
    THEN Upserted(t, pre[t], call.arg, Len(call.arg)).rows
    ELSE IF call.fn = "push_dataframe_to_table" /\ t = "Cryptocurrencies"
    THEN FrameRows(call.arg)
    ELSE pre[t].rows

\* C17: a reader (run_query, run_sql, select_*) that runs at any point of
\* one writing call (insert_* or push_dataframe_to_table) gets the rows the
\* table held before the batch or the rows it holds after the whole batch:
\* never part of the batch, never the emptied snapshot.
C17_ReadersSeeWholeBatches ==
    seen.kind = "rows" =>
        \/ seen.rows = pre[seen.table].rows
        \/ seen.rows = AfterBatch(seen.table)

\* C17 witness: a SELECT on Cryptocurrencies ran after the DELETE and the first
\* INSERT of a refresh with two rows, and returned the prior snapshot.
C17_Witness ==
    /\ seen.kind = "rows"
    /\ seen.table = "Cryptocurrencies"
    /\ seen.at = "to_sql"
    /\ seen.i = 2
    /\ call.fn = "push_dataframe_to_table"
    /\ Len(call.arg) = 2
    /\ seen.rows = pre["Cryptocurrencies"].rows
    /\ seen.rows # EmptyBag
    /\ seen.rows # FrameRows(call.arg)

\* C20 (as claimed): whatever query string is handed to the query layer, the
\* committed contents of the four tables when the call has returned or
\* raised are what they were when it started.
C20_QueryLayerReadOnly ==
    seen.kind # "none" => seen.after = qpre

---------------------------------------------------------------------------
(* The statements of select_stock_price and of the dashboard pages: the    *)
(* SQL text and the parameters handed to pd.read_sql.  A text is the       *)
(* sequence of the string pieces the code joins (white space is written    *)
(* once); the parameters are the list bound to its ? placeholders.  An     *)
(* optional argument is <<>> (None) or <<value>>.                          *)

\* f"{int(limit)}" for the enumerated limits.
IntText(n) ==
    CASE n = 0 -> "0"
      [] n = 1 -> "1"
      [] n = 2 -> "2"
      [] n = 3 -> "3"

\* date.isoformat(): 'YYYY-MM-DD'.
isoformat(ymd) == StrfDate(ymd)

\* date < date, on <<year, month, day>>.
DateLess(a, b) ==
    \/ a[1] < b[1]
    \/ a[1] = b[1] /\ a[2] < b[2]
    \/ a[1] = b[1] /\ a[2] = b[2] /\ a[3] < b[3]

\* Mutant of StockPriceStatement: the ticker is written into the text
\* (f" WHERE ticker = '{ticker}'") instead of being bound.
StockPriceStatement_interpolates(ticker, limit) ==
    [text |-> <<"SELECT * FROM stock_price">>
                \o (IF ticker # <<>>
                    THEN <<" WHERE ticker = '", ticker[1], "'">> ELSE <<>>)
                \o <<" ORDER BY ticker, date">>
                \o (IF limit # <<>> THEN <<" LIMIT ", IntText(limit[1])>> ELSE <<>>),
     params |-> <<>>]

\* select_stock_price(ticker, limit), lines 279-286 and 289: the query and
\* the params given to pd.read_sql (`params if params else None`: the empty
\* list is passed as None, here <<>> as well).
StockPriceStatement(ticker, limit) ==
    [text |-> <<"SELECT * FROM stock_price">>
                \o (IF ticker # <<>> THEN <<" WHERE ticker = ?">> ELSE <<>>)
                \o <<" ORDER BY ticker, date">>
                \o (IF limit # <<>> THEN <<" LIMIT ", IntText(limit[1])>> ELSE <<>>),
     params |-> ticker]

\* page_filters_exploration: the four averages and the daily snapshot, each
\* run with [start_s, end_s].
FilterTexts ==
    <<(<<"SELECT ROUND(AVG(price_usd), 2) AS avg_price FROM Crypto_prices WHERE coin_id = 'bitcoin' AND date >= ? AND date <= ?">>),
      (<<"SELECT ROUND(AVG(price_usd), 2) AS avg_price FROM oil_price WHERE date >= ? AND date <= ?">>),
      (<<"SELECT ROUND(AVG(close), 2) AS avg_close FROM stock_price WHERE ticker = '^GSPC' AND date >= ? AND date <= ?">>),
      (<<"SELECT ROUND(AVG(close), 2) AS avg_close FROM stock_price WHERE ticker = '^NSEI' AND date >= ? AND date <= ?">>),
      (<<"SELECT o.date, b.price_usd AS btc_price, o.price_usd AS oil_price, s.close AS sp500_close, n.close AS nifty_close FROM oil_price o",
         " LEFT JOIN (SELECT date, price_usd FROM Crypto_prices WHERE coin_id = 'bitcoin') b ON o.date = b.date",
         " LEFT JOIN (SELECT date, close FROM stock_price WHERE ticker = '^GSPC') s ON o.date = s.date",
         " LEFT JOIN (SELECT date, close FROM stock_price WHERE ticker = '^NSEI') n ON o.date = n.date",
         " WHERE o.date >= ? AND o.date <= ? ORDER BY o.date">>)>>

FilterStatements(start, end) ==
    [k \in DOMAIN FilterTexts |->
        [text |-> FilterTexts[k], params |-> <<isoformat(start), isoformat(end)>>]]

\* page_top3_crypto: the query for the three coins of the select box (no
\* parameter), then the price series of the chosen coin.
Top3Statements(coin_id, start, end) ==
    <<[text |-> <<"SELECT id, symbol, name, market_cap_rank FROM Cryptocurrencies WHERE market_cap_rank IS NOT NULL ORDER BY market_cap_rank ASC LIMIT 3">>,
       params |-> <<>>],
      [text |-> <<"SELECT date, price_usd FROM Crypto_prices WHERE coin_id = ? AND date >= ? AND date <= ? ORDER BY date">>,
       params |-> <<coin_id, isoformat(start), isoformat(end)>>]>>

\* The last two calls, the new one last.
Sent(c) == IF Len(sent) < 2 THEN Append(sent, c) ELSE <<sent[2], c>>

---------------------------------------------------------------------------
(* What those statements return.  Dates are stored as 'YYYY-MM-DD' text    *)
(* and compared as text.                                                   *)

\* text <= text in SQLite.
StrLE(a, b) == a = b \/ StrLess(a, b)

\* date >= ? AND date <= ?
InWindow(d, start_s, end_s) == StrLE(start_s, d) /\ StrLE(d, end_s)

\* A result set of the query layer: a frame of rows.
Frame(table, R) ==
    [kind |-> "rows", query |-> "select", table |-> table, rows |-> R,
     at |-> call.pc, i |-> call.i, after |-> db]

\* The rows of a set, as the bag a frame holds.
AsBag(S) == IF S = {} THEN EmptyBag ELSE SetToBag(S)

\* ORDER BY ticker, date: the tickers the store can hold, in text order
\* ('^' sorts after the capital letters).
TickerRank(t) ==
    CASE t = "GSPC" -> 1
      [] t = "IXIC" -> 2
      [] t = "NSEI" -> 3
      [] t = "^GSPC" -> 4
      [] t = "^IXIC" -> 5
      [] t = "^NSEI" -> 6

OrderedBefore(x, y) ==
    \/ TickerRank(x.ticker) < TickerRank(y.ticker)
    \/ x.ticker = y.ticker /\ StrLess(x.date, y.date)

\* LIMIT n after ORDER BY ticker, date.
Limit(S, limit) ==
    IF limit = <<>> THEN S
    ELSE {x \in S : Cardinality({y \in S : OrderedBefore(y, x)}) < limit[1]}

\* A joined subquery matched nothing: its columns are NULL.
NoMatch == [matched |-> FALSE]
Column(x, c) == IF x = NoMatch THEN NULL ELSE x[c]

\* (SELECT date, price_usd FROM Crypto_prices WHERE coin_id = 'bitcoin')
BitcoinPrices == {x \in RowSet(db["Crypto_prices"]) : x.coin_id = "bitcoin"}

\* Mutant of EquityCloses: the subquery without its WHERE ticker = T.
EquityCloses_all_tickers(T) == RowSet(db["stock_price"])

\* (SELECT date, close FROM stock_price WHERE ticker = T)
EquityCloses(T) == {x \in RowSet(db["stock_price"]) : x.ticker = T}

\* o LEFT JOIN R ON o.date = R.date: the rows of R on the date, or NoMatch.
LeftJoin(R, d) ==
    LET on == {x \in R : x.date = d}
    IN  IF on = {} THEN {NoMatch} ELSE on

\* The daily-snapshot query (lines 326-338) with [start_s, end_s]: one output
\* row for every combination of an oil_price row in the window with its
\* matches in the three subqueries.
DailySnapshot(start_s, end_s) ==
    LET joined ==
            {<<o, b, e, n>> :
                o \in {x \in RowSet(db["oil_price"]) : InWindow(x.date, start_s, end_s)},
                b \in BitcoinPrices \cup {NoMatch},
                e \in EquityCloses("^GSPC") \cup {NoMatch},
                n \in EquityCloses("^NSEI") \cup {NoMatch}}
        combos ==
            {j \in joined :
                /\ j[2] \in LeftJoin(BitcoinPrices, j[1].date)
                /\ j[3] \in LeftJoin(EquityCloses("^GSPC"), j[1].date)
                /\ j[4] \in LeftJoin(EquityCloses("^NSEI"), j[1].date)}
        Out(j) == [date |-> j[1].date,
                   btc_price |-> Column(j[2], "price_usd"),
                   oil_price |-> j[1].price_usd,
                   sp500_close |-> Column(j[3], "close"),
                   nifty_close |-> Column(j[4], "close")]
    IN  IF combos = {} THEN EmptyBag
        ELSE [r \in {Out(j) : j \in combos} |->
                 Cardinality({j \in combos : Out(j) = r})]

\* The calendar days a date_input of the dashboard is set to.
DashDays == {<<2024, 1, 1>>, <<2024, 1, 2>>, <<2024, 1, 3>>}
D3 == StrfDate(<<2024, 1, 3>>)

\* The statements of a page up to the first one whose table does not exist
\* (run_sql raises there and the page ends); all of them otherwise.
Reached(stmts, reads) ==
    LET missing == {k \in DOMAIN stmts : ~ db[reads[k]].exists}
    IN  IF missing = {} THEN stmts
        ELSE SubSeq(stmts, 1, CHOOSE k \in missing : \A m \in missing : k <= m)

\* page_filters_exploration() with the two date inputs set to start and end:
\* nothing is queried when start > end (lines 298-300).
page_filters_exploration ==
    /\ prog = "dashboard"
    /\ \E start \in DashDays, end \in DashDays :
          /\ ~ DateLess(end, start)
          /\ LET stmts == FilterStatements(start, end)
                 reads == <<"Crypto_prices", "oil_price", "stock_price",
                            "stock_price", "oil_price">>
                 done == Reached(stmts, reads)
             IN  /\ sent' = Sent([fn |-> "page_filters_exploration",
                                  args |-> [start |-> start, end |-> end],
                                  stmts |-> done])
                 /\ seen' = IF Len(done) = Len(stmts) /\ db["oil_price"].exists
                            THEN Frame("oil_price",
                                       DailySnapshot(isoformat(start), isoformat(end)))
                            ELSE Failed([kind |-> "select"], db)
    /\ qpre' = db
    /\ UNCHANGED <<db, conn, call, ret, pre, hist, repeat>>
    /\ UNCHANGED <<fetchVars, normVars>>

\* page_top3_crypto(): the coin is one of those the first query returned
\* (the model's Cryptocurrencies rows all have a rank, and are three at
\* most); nothing more is queried when the table is empty (lines 378-380) or
\* when start > end (lines 391-393).
page_top3_crypto ==
    /\ prog = "dashboard"
    /\ LET top3 == IF db["Cryptocurrencies"].exists
                   THEN {x.id : x \in RowSet(db["Cryptocurrencies"])} ELSE {}
       IN  \E start \in DashDays, end \in DashDays :
             \E coin_id \in top3 \cup {"none"} :
               /\ coin_id = "none" <=> top3 = {}
               /\ LET stmts == Top3Statements(coin_id, start, end)
                      asked == IF top3 = {} \/ DateLess(end, start)
                               THEN SubSeq(stmts, 1, 1) ELSE stmts
                      done == Reached(asked, <<"Cryptocurrencies", "Crypto_prices">>)
                  IN  /\ sent' = Sent([fn |-> "page_top3_crypto",
                                       args |-> [coin_id |-> coin_id,
                                                 start |-> start, end |-> end],
                                       stmts |-> done])
                      /\ seen' =
                            IF Len(done) < Len(asked) \/ ~ db["Cryptocurrencies"].exists
                            THEN Failed([kind |-> "select"], db)
                            ELSE IF Len(done) = 1
                            THEN Frame("Cryptocurrencies", db["Cryptocurrencies"].rows)
                            ELSE Frame("Crypto_prices",
                                       AsBag({x \in RowSet(db["Crypto_prices"]) :
                                                /\ x.coin_id = coin_id
                                                /\ InWindow(x.date, isoformat(start),
                                                            isoformat(end))}))
    /\ qpre' = db
    /\ UNCHANGED <<db, conn, call, ret, pre, hist, repeat>>
    /\ UNCHANGED <<fetchVars, normVars>>

\* The tickers and limits select_stock_price is called with: none, a
\* configured ticker, a stored one, and text that is no ticker.
TickerArgs == {<<>>, <<"^GSPC">>, <<"GSPC">>, <<"x' OR '1'='1">>}
LimitArgs == {<<>>, <<1>>, <<2>>}

\* select_stock_price(ticker, limit).
select_stock_price_by_ticker ==
    /\ prog = "dashboard"
    /\ \E ticker \in TickerArgs, limit \in LimitArgs :
          LET stmt == StockPriceStatement(ticker, limit)
              T == db["stock_price"]
              where == {x \in RowSet(T) : ticker # <<>> => x.ticker = ticker[1]}
          IN  /\ sent' = Sent([fn |-> "select_stock_price",
                               args |-> [ticker |-> ticker, limit |-> limit],
                               stmts |-> <<stmt>>])
              /\ seen' = IF T.exists
                         THEN Frame("stock_price", AsBag(Limit(where, limit)))
                         ELSE Failed([kind |-> "select"], db)
    /\ qpre' = db
    /\ UNCHANGED <<db, conn, call, ret, pre, hist, repeat>>
    /\ UNCHANGED <<fetchVars, normVars>>

\* The fetch loops are over, and no store call is in progress on the file d.
Fetched(d) ==
    /\ phase = "returned"
    /\ unit = 1
    /\ attempt = 0
    /\ log = <<>>
    /\ all_data = <<>>
    /\ result = <<>>
    /\ df = EmptyFrame
    /\ frames = <<>>
    /\ rows = <<>>
    /\ normalized = FALSE
    /\ db = d
    /\ conn = Closed
    /\ call = NoCall
    /\ ret = "none"
    /\ pre = d
    /\ hist = NoHist
    /\ repeat = FALSE
    /\ seen = NotSeen
    /\ qpre = d
    /\ sent = <<>>

\* Every script at rest and no store call in progress, on the file d.
AtRest(d) == Fetched(d) /\ raw_data = <<>>

\* A file the ingestion scripts have filled: two coins, their prices, oil
\* prices and index bars.
DashDb ==
    [t \in Tables |->
        [exists |-> TRUE,
         rows |->
            CASE t = "Cryptocurrencies" ->
                    SetToBag({astype_str(Coin("bitcoin", "btc", 42000, <<2024, 1, 1>>)),
                              astype_str(Coin("ethereum", "eth", 3000, <<2024, 1, 1>>))})
              [] t = "Crypto_prices" ->
                    SetToBag({[coin_id |-> "bitcoin", date |-> D1, price_usd |-> 42000],
                              [coin_id |-> "bitcoin", date |-> D2, price_usd |-> 43000],
                              [coin_id |-> "ethereum", date |-> D1, price_usd |-> 3000]})
              [] t = "oil_price" ->
                    SetToBag({[date |-> D1, price_usd |-> 80],
                              [date |-> D2, price_usd |-> 81]})
              [] t = "stock_price" ->
                    SetToBag({Bar("GSPC", D1, 5000, 5001),
                              Bar("GSPC", D2, 5100, 5101),
                              Bar("NSEI", D1, 5000, 5001)})]]

\* The statement specification: the dashboard's pages and select_stock_price
\* are called, with any arguments, on that file.
InitText ==
    /\ prog = "dashboard"
    /\ AtRest(DashDb)

NextText ==
    \/ select_stock_price_by_ticker
    \/ page_filters_exploration
    \/ page_top3_crypto

SpecText == InitText /\ [][NextText]_vars

\* Two calls of the same function that differ at most in the supplied
\* ticker, coin id or dates (a ticker is supplied in both or in neither).
SameButValues(a, b) ==
    /\ a.fn = b.fn
    /\ a.fn = "select_stock_price" =>
          /\ a.args.limit = b.args.limit
          /\ Len(a.args.ticker) = Len(b.args.ticker)

\* The values a call was given, in the order the code binds them.
Supplied(c) ==
    CASE c.fn = "select_stock_price" -> <<c.args.ticker>>
      [] c.fn = "page_filters_exploration" ->
            [k \in 1..5 |-> <<isoformat(c.args.start), isoformat(c.args.end)>>]
      [] c.fn = "page_top3_crypto" ->
            <<(<<>>), (<<c.args.coin_id, isoformat(c.args.start),
                        isoformat(c.args.end)>>)>>

\* C21: two calls of select_stock_price, of the date-range page or of the
\* coin page that differ only in the supplied ticker, coin id or start/end
\* date send the same SQL text, statement by statement; the supplied values
\* are the bound parameters, and the ticker or coin id is no piece of any
\* text.
C21_TextIndependentOfValues ==
    /\ \A i \in DOMAIN sent, j \in DOMAIN sent :
          SameButValues(sent[i], sent[j]) =>
              \A k \in DOMAIN sent[i].stmts \cap DOMAIN sent[j].stmts :
                  sent[i].stmts[k].text = sent[j].stmts[k].text
    /\ \A i \in DOMAIN sent :
          \A k \in DOMAIN sent[i].stmts :
              /\ sent[i].stmts[k].params = Supplied(sent[i])[k]
              /\ sent[i].fn = "select_stock_price" =>
                    \A v \in DOMAIN sent[i].args.ticker :
                        \A p \in DOMAIN sent[i].stmts[k].text :
                            sent[i].stmts[k].text[p] # sent[i].args.ticker[v]
              /\ sent[i].fn = "page_top3_crypto" =>
                    \A p \in DOMAIN sent[i].stmts[k].text :
                        sent[i].stmts[k].text[p] # sent[i].args.coin_id

\* C21 witness: select_stock_price was called with '^GSPC' and then with
\* text that closes the quote, both with LIMIT 2: one text, two parameter
\* lists.
C21_Witness ==
    /\ Len(sent) = 2
    /\ sent[1].fn = "select_stock_price"
    /\ sent[2].fn = "select_stock_price"
    /\ sent[1].args = [ticker |-> <<"^GSPC">>, limit |-> <<2>>]
    /\ sent[2].args = [ticker |-> <<"x' OR '1'='1">>, limit |-> <<2>>]
    /\ sent[1].stmts[1].text = sent[2].stmts[1].text
    /\ sent[1].stmts[1].params # sent[2].stmts[1].params

---------------------------------------------------------------------------
(* Claims about failing queries.                                           *)

\* C22 (as claimed): a malformed query given to run_query or run_sql comes
\* back to the caller as a failure value (the call returns, it does not
\* raise), and the file holds what it held before the call.
C22_MalformedQueryReturned ==
    seen.query = "malformed" =>
        /\ seen.kind = "failure"
        /\ seen.after = qpre

---------------------------------------------------------------------------
(* The daily snapshot of the date-range page, on any store content.        *)

\* Rows the three historical tables can hold.  Each set holds one row per
\* primary key, so every subset is a content the tables' keys allow; the
\* stock rows are of the configured tickers, of a ticker as stock_price.py
\* stores it, and of two tickers on one date.
JoinOilRows ==
    {[date |-> D1, price_usd |-> 80],
     [date |-> D2, price_usd |-> 81],
     [date |-> D3, price_usd |-> 82]}

JoinCryptoRows ==
    {[coin_id |-> "bitcoin", date |-> D1, price_usd |-> 42000],
     [coin_id |-> "ethereum", date |-> D1, price_usd |-> 3000]}

JoinStockRows ==
    {Bar("^GSPC", D1, 5000, 5001),
     Bar("^NSEI", D1, 22000, 22001),
     Bar("^IXIC", D1, 16000, 16001),
     Bar("GSPC", D1, 5100, 5101),
     Bar("^GSPC", D2, 5200, 5201)}

\* The file holding those rows.
JoinDb(oil, crypto, stock) ==
    [t \in Tables |->
        [exists |-> TRUE,
         rows |-> CASE t = "Cryptocurrencies" -> EmptyBag
                    [] t = "Crypto_prices" -> AsBag(crypto)
                    [] t = "oil_price" -> AsBag(oil)
                    [] t = "stock_price" -> AsBag(stock)]]

\* The snapshot specification: the date-range page is opened, with any
\* window, on any such file.
InitJoin ==
    /\ prog = "dashboard"
    /\ \E oil \in SUBSET JoinOilRows, crypto \in SUBSET JoinCryptoRows,
          stock \in SUBSET JoinStockRows :
              AtRest(JoinDb(oil, crypto, stock))

NextJoin == page_filters_exploration

SpecJoin == InitJoin /\ [][NextJoin]_vars

\* The close of ticker T on date d, NULL if stock_price has no such row.
CloseOn(T, d) ==
    LET on == {x \in RowSet(db["stock_price"]) : x.ticker = T /\ x.date = d}
    IN  IF on = {} THEN NULL ELSE (CHOOSE x \in on : TRUE).close

\* The window of the last call of the date-range page.
LastWindow ==
    [start_s |-> isoformat(sent[Len(sent)].args.start),
     end_s |-> isoformat(sent[Len(sent)].args.end)]

\* C23: on every store content and for every window, the snapshot the
\* date-range page shows has exactly one row for each oil_price date inside
\* the window and no other row; the equity columns of a row are the closes of
\* '^GSPC' and '^NSEI' on that date, NULL where stock_price has no such row.
C23_OneRowPerCommodityDate ==
    (prog = "dashboard" /\ sent # <<>> /\ seen.kind = "rows"
        /\ sent[Len(sent)].fn = "page_filters_exploration") =>
        LET w == LastWindow
            dates == {x.date : x \in {y \in RowSet(db["oil_price"]) :
                                         InWindow(y.date, w.start_s, w.end_s)}}
            got == BagToSet(seen.rows)
        IN  /\ {r.date : r \in got} = dates
            /\ \A r \in got :
                  /\ seen.rows[r] = 1
                  /\ \A q \in got : q.date = r.date => q = r
                  /\ r.sp500_close = CloseOn("^GSPC", r.date)
                  /\ r.nifty_close = CloseOn("^NSEI", r.date)

\* C23 witness: stock_price holds rows of four tickers on the first day and
\* none on the third; the snapshot of the window over the three days has one
\* row for the first day, with both closes, and one for the third, with NULL
\* equity columns.
C23_Witness ==
    /\ prog = "dashboard"
    /\ seen.kind = "rows"
    /\ sent # <<>>
    /\ sent[Len(sent)].fn = "page_filters_exploration"
    /\ LastWindow = [start_s |-> D1, end_s |-> D3]
    /\ Cardinality({x \in RowSet(db["stock_price"]) : x.date = D1}) = 4
    /\ {x.date : x \in RowSet(db["oil_price"])} = {D1, D3}
    /\ Cardinality(BagToSet(seen.rows)) = 2
    /\ \E r \in BagToSet(seen.rows) :
          r.date = D1 /\ r.sp500_close = 5001 /\ r.nifty_close = 22001
    /\ \E r \in BagToSet(seen.rows) :
          r.date = D3 /\ r.sp500_close = NULL /\ r.nifty_close = NULL

---------------------------------------------------------------------------
(* stock_price.py: the equity normalizer and main.                         *)
(*                                                                         *)
(* raw_data holds, for each ticker of TICKERS, the history yfinance        *)
(* returned for it: bars in ascending date order.  OHLC values are counts  *)
(* of 10^-7 like the crypto prices; a volume is a count of tenths (the     *)
(* column is a float column once a bar has a gap); NULL stands for NaN.    *)

\* Bound: the bars of all tickers together.
MaxBars == 2

\* The bars a history is made of: a regular bar, a bar with a gap (no
\* close), and a bar whose open and low are 0.
SourceDays == {<<2024, 1, 1>>, <<2024, 1, 2>>}
SourceBars ==
    {[date |-> d, open |-> o[1], high |-> 1015000000, low |-> o[1],
      close |-> o[2], volume |-> 10005] :
        d \in SourceDays,
        o \in {<<1001234568, 1015000000>>, <<1001234568, NULL>>, <<0, 1015000000>>}}

\* Lines 54-66 of download_ticker_history on a history that is not empty:
\* the five columns, and the ticker column.
TickerRows(t, history) ==
    [k \in DOMAIN history |->
        [date |-> history[k].date, open |-> history[k].open,
         high |-> history[k].high, low |-> history[k].low,
         close |-> history[k].close, volume |-> history[k].volume,
         ticker |-> StripCaret(t)]]

\* Lines 92-93 and 98: the frames of the histories that are not empty, one
\* after the other.
RECURSIVE concat(_, _)
concat(raw, n) ==
    IF n = 0 THEN <<>>
    ELSE concat(raw, n - 1) \o TickerRows(raw[n][1], raw[n][2])

\* dropna(subset=["open", "high", "low", "close", "volume"])
dropna(frame) ==
    SelectSeq(frame, LAMBDA r : /\ r.open # NULL
                                /\ r.high # NULL
                                /\ r.low # NULL
                                /\ r.close # NULL
                                /\ r.volume # NULL)

\* astype(int) on a volume in tenths: the fraction is cut off.
astype_int(v) == IF v >= 0 THEN v \div 10 ELSE - ((- v) \div 10)

\* The orders in which a sort by `Before` can leave the rows of a frame
\* (rows that compare equal may come out in either order).
Sortings(frame, Before(_, _)) ==
    LET n == Len(frame)
        perms == {p \in [1..n -> 1..n] : \A i, j \in 1..n : p[i] = p[j] => i = j}
    IN  {[k \in 1..n |-> frame[p[k]]] :
            p \in {q \in perms :
                    \A i, j \in 1..n : i < j => ~ Before(frame[q[j]], frame[q[i]])}}

DateBefore(x, y) == DateLess(x.date, y.date)

\* Lines 98-102 of download_all_tickers: what the function can return for
\* the downloaded histories (the empty frame when nothing was downloaded).
combined(raw) ==
    Sortings([k \in DOMAIN dropna(concat(raw, Len(raw))) |->
                 [dropna(concat(raw, Len(raw)))[k]
                     EXCEPT !.volume = astype_int(@)]],
             DateBefore)

\* prepare_stock_price_rows(df): one tuple per row of df, in its order.
prepare_stock_price_rows(frame) ==
    [k \in DOMAIN frame |->
        [date |-> StrfDate(frame[k].date),
         open |-> Round6(frame[k].open), high |-> Round6(frame[k].high),
         low |-> Round6(frame[k].low), close |-> Round6(frame[k].close),
         volume |-> frame[k].volume, ticker |-> frame[k].ticker]]

\* main, lines 130-136: df = download_all_tickers(...) for the histories in
\* raw_data; rows = prepare_stock_price_rows(df) unless df is empty.
normalize_stock_prices ==
    /\ prog = "stock_price"
    /\ ~ normalized
    /\ \E frame \in combined(raw_data) : rows' = prepare_stock_price_rows(frame)
    /\ normalized' = TRUE
    /\ UNCHANGED raw_data
    /\ UNCHANGED fetchVars
    /\ UNCHANGED storeVars

\* main, lines 132-140: nothing is stored when df is empty; otherwise
\* insert_stock_prices(rows).  (The create_stock_price_table() call of line
\* 139 is the CREATE TABLE IF NOT EXISTS insert_stock_prices starts with.)
store_stock_prices ==
    /\ prog = "stock_price"
    /\ normalized
    /\ rows # <<>>
    /\ call.fn = "none"
    /\ Begin("insert_stock_prices", rows)

\* The histories of a run: MaxBars bars at most, those of a ticker on
\* ascending dates.
Histories(n) ==
    {h \in [1..n -> SourceBars] :
        \A i, j \in 1..n : i < j => DateLess(h[i].date, h[j].date)}

\* The equity specification: stock_price.py runs once, on a file in which
\* the other historical tables were filled by earlier runs.
InitEquity ==
    /\ prog = "stock_price"
    /\ Fetched(SeedDb(HistTables \ {"stock_price"}))
    /\ \E n1 \in 0..MaxBars :
          \E n2 \in 0..(MaxBars - n1) :
              \E n3 \in 0..(MaxBars - n1 - n2) :
                  \E h1 \in Histories(n1), h2 \in Histories(n2), h3 \in Histories(n3) :
                      raw_data = <<(<<TICKERS[1], h1>>), (<<TICKERS[2], h2>>),
                                   (<<TICKERS[3], h3>>)>>

\* The statements of an insert_* call, and what can cut it short.
InsertStep ==
    \/ create_table_if_not_exists
    \/ executemany
    \/ commit
    \/ close
    \/ io_error
    \/ interrupt

NextEquity ==
    \/ normalize_stock_prices
    \/ store_stock_prices
    \/ InsertStep

SpecEquity == InitEquity /\ [][NextEquity]_vars

\* The dates (as stored text) of the bars of history h that have no gap.
UsableDates(h) ==
    {StrfDate(h[k].date) : k \in {i \in DOMAIN h :
        /\ h[i].open # NULL
        /\ h[i].high # NULL
        /\ h[i].low # NULL
        /\ h[i].close # NULL
        /\ h[i].volume # NULL}}

\* C24 (as claimed): after a successful ingestion, for every ticker T of
\* TICKERS the filter `ticker = T` (the predefined stock and join queries,
\* the snapshot's subqueries) selects exactly the rows ingested for T: one
\* per bar of T's history without a gap, and every stored row of the run
\* carries a ticker of TICKERS.
C24_CanonicalTickerStored ==
    (prog = "stock_price" /\ Returned("insert_stock_prices")) =>
        /\ \A k \in DOMAIN raw_data :
              {x.date : x \in EquityCloses(raw_data[k][1])}
                  = UsableDates(raw_data[k][2])
        /\ \A x \in RowSet(db["stock_price"]) :
              \E k \in DOMAIN TICKERS : x.ticker = TICKERS[k]

\* C27 (as claimed): every row of stock_price has open, high, low and close
\* strictly positive and a volume that is not negative.
C27_PositiveBars ==
    prog = "stock_price" =>
        \A x \in RowSet(db["stock_price"]) :
            /\ x.open > 0
            /\ x.high > 0
            /\ x.low > 0
            /\ x.close > 0
            /\ x.volume >= 0

---------------------------------------------------------------------------
(* Termination of the fetch batches.                                       *)

\* The fetch specification with progress: every request is answered (by a
\* response or an exception) and every sleep ends, so a batch that can take
\* a step takes one.
SpecLive == Init /\ [][Next]_vars /\ WF_vars(Next)

\* The configured maximum number of attempts per unit of the running script.
MaxAttempts ==
    CASE prog = "pages" -> PAGE_MAX_RETRIES
      [] prog = "coins" -> MAX_RETRIES
      [] prog = "tickers" -> RATE_LIMIT_RETRIES

\* No unit was requested more often than the maximum, and the batch made no
\* more requests than units times the maximum.
WithinAttempts ==
    /\ \A u \in 1..NumUnits : Cardinality(ReqIdx(u)) <= MaxAttempts
    /\ \A i \in AllReqIdx : log[i][2] \in 1..NumUnits
    /\ Cardinality(AllReqIdx) <= NumUnits * MaxAttempts

\* C25: whatever the responses, fetch_all_pages, fetch_all_daily_prices and
\* download_all_tickers request each unit at most its maximum number of
\* attempts (3 per page, 3 per coin, 4 per ticker), hence make at most
\* units x maximum requests, and eventually finish (return or raise).
C25_BatchTerminates ==
    /\ [] WithinAttempts
    /\ <> (phase # "running")

\* C25 witness: download_all_tickers returned after every ticker was rate
\* limited on each of its RATE_LIMIT_RETRIES attempts.
C25_Witness ==
    /\ prog = "tickers"
    /\ phase = "returned"
    /\ \A u \in 1..Len(TICKERS) : Throttled(u)
    /\ Cardinality(AllReqIdx) = Len(TICKERS) * RATE_LIMIT_RETRIES

---------------------------------------------------------------------------
(* oil_price.py: the commodity normalizer.                                 *)
(*                                                                         *)
(* raw_data holds the CSV frame (Date as the text of the file, Price in    *)
(* units of 10^-7) and the window's start and end, as text.                *)

\* Bound: the rows of the CSV frame.
MaxOilRows == 3

\* DATE_START and DATE_END of oil_price.py.
OIL_DATE_START == StrfDate(<<2020, 1, 1>>)
OIL_DATE_END == StrfDate(<<2026, 1, 31>>)

\* pd.to_datetime / pd.Timestamp on 'YYYY-MM-DD' text: <<year, month, day>>.
to_datetime(text) ==
    <<(text[1] - 48) * 1000 + (text[2] - 48) * 100 + (text[3] - 48) * 10 + (text[4] - 48),
      (text[6] - 48) * 10 + (text[7] - 48),
      (text[9] - 48) * 10 + (text[10] - 48)>>

\* Mutant of filter_date_range: the end of the window is excluded
\* (`df[date_col] < end_ts`).
filter_date_range_excludes_end(frame, start, end) ==
    LET parsed == [k \in DOMAIN frame |->
                      [Date |-> to_datetime(frame[k].Date), Price |-> frame[k].Price]]
        start_ts == to_datetime(start)
        end_ts == to_datetime(end)
        mask(r) == ~ DateLess(r.Date, start_ts) /\ DateLess(r.Date, end_ts)
    IN  Sortings(SelectSeq(parsed, mask), LAMBDA x, y : DateLess(x.Date, y.Date))

\* filter_date_range(df, "Date", start, end): the frames it can return (rows
\* of one date may come out of sort_values in either order).
filter_date_range(frame, start, end) ==
    LET parsed == [k \in DOMAIN frame |->
                      [Date |-> to_datetime(frame[k].Date), Price |-> frame[k].Price]]
        start_ts == to_datetime(start)
        end_ts == to_datetime(end)
        mask(r) == ~ DateLess(r.Date, start_ts) /\ ~ DateLess(end_ts, r.Date)
    IN  Sortings(SelectSeq(parsed, mask), LAMBDA x, y : DateLess(x.Date, y.Date))

\* prepare_oil_price_rows(df): (date_str, price) per row of df, in its order.
prepare_oil_price_rows(frame) ==
    [k \in DOMAIN frame |->
        [date |-> StrfDate(frame[k].Date), price_usd |-> Round6(frame[k].Price)]]

\* main, lines 80-81, for the frame and the window in raw_data.
normalize_oil_prices ==
    /\ prog = "oil_price"
    /\ ~ normalized
    /\ \E frame \in filter_date_range(raw_data.df, raw_data.start, raw_data.end) :
          rows' = prepare_oil_price_rows(frame)
    /\ normalized' = TRUE
    /\ UNCHANGED raw_data
    /\ UNCHANGED fetchVars
    /\ UNCHANGED storeVars

\* The rows of the CSV: days around both ends of the configured window.
CsvDays ==
    {<<2019, 12, 31>>, <<2020, 1, 1>>, <<2020, 1, 2>>, <<2026, 1, 31>>, <<2026, 2, 1>>}
CsvRows == {[Date |-> StrfDate(d), Price |-> p] : d \in CsvDays, p \in {805000000, 801234568}}

\* The commodity specification: the normalizer is given any frame of
\* MaxOilRows rows at most, in any order, and a window.
InitOil ==
    /\ prog = "oil_price"
    /\ Fetched(FreshDb)
    /\ \E n \in 0..MaxOilRows :
          \E frame \in [1..n -> CsvRows] :
              \E start \in {OIL_DATE_START, StrfDate(<<2020, 1, 2>>)},
                 end \in {OIL_DATE_END, StrfDate(<<2020, 1, 1>>)} :
                    raw_data = [df |-> frame, start |-> start, end |-> end]

NextOil == normalize_oil_prices

SpecOil == InitOil /\ [][NextOil]_vars

\* How often each element occurs in a sequence.
Occurrences(seq) ==
    [x \in {seq[k] : k \in DOMAIN seq} |->
        Cardinality({k \in DOMAIN seq : seq[k] = x})]

\* The positions of the CSV frame whose date d satisfies start <= d <= end.
Inside ==
    {k \in DOMAIN raw_data.df :
        /\ StrLE(raw_data.start, raw_data.df[k].Date)
        /\ StrLE(raw_data.df[k].Date, raw_data.end)}

\* C26: filter_date_range followed by prepare_oil_price_rows emits one row
\* (the date, the price rounded to 6 decimals) for each input row whose date d
\* satisfies start <= d <= end, both ends included, and no other row; the
\* rows are in ascending date order whatever the order of the input.
C26_InclusiveWindowSorted ==
    (prog = "oil_price" /\ normalized) =>
        /\ Len(rows) = Cardinality(Inside)
        /\ \A r \in {rows[k] : k \in DOMAIN rows} :
              Occurrences(rows)[r]
                  = Cardinality({k \in Inside :
                        /\ raw_data.df[k].Date = r.date
                        /\ Round6(raw_data.df[k].Price) = r.price_usd})
        /\ \A i \in DOMAIN rows, j \in DOMAIN rows :
              i < j => StrLE(rows[i].date, rows[j].date)

\* C26 witness: the frame lists the last day of the configured window, then
\* the day before its first day, then its first day; the two days of the
\* window were emitted, the first day first.
C26_Witness ==
    /\ prog = "oil_price"
    /\ normalized
    /\ raw_data.start = OIL_DATE_START
    /\ raw_data.end = OIL_DATE_END
    /\ Len(raw_data.df) = 3
    /\ raw_data.df[1].Date = OIL_DATE_END
    /\ raw_data.df[2].Date = StrfDate(<<2019, 12, 31>>)
    /\ raw_data.df[3].Date = OIL_DATE_START
    /\ Len(rows) = 2
    /\ rows[1].date = OIL_DATE_START
    /\ rows[2].date = OIL_DATE_END

---------------------------------------------------------------------------
(* Units without usable rows, and malformed payloads.                      *)

\* The unit specification: a fetch script runs, or the crypto normalizer is
\* given a raw_data.
InitUnits == Init \/ InitRows

NextUnits == Next \/ NextRows

SpecUnits == InitUnits /\ [][NextUnits]_vars

\* What the last download call for ticker u did.
LastDownload(u) == log[MaxOf(ReqIdx(u))][3]

\* C28: a unit with zero usable rows is no error.  A coin whose payload has
\* no prices key or an empty prices list yields no row, never ends
\* process_prices_to_rows by an exception, and every coin of raw_data gets
\* one row per UTC day of its samples whatever the other coins hold.  A
\* ticker whose download is empty contributes no frame and does not end the
\* batch: when download_all_tickers returns, frames holds the frame of every
\* ticker whose download returned rows.
C28_EmptyUnitIsNoError ==
    /\ prog = "normalize" =>
          /\ phase = "raised" =>
                \E i \in DOMAIN raw_data : ~ Unpacks(raw_data[i][2])
          /\ normalized =>
                \A i \in DOMAIN raw_data :
                    LET prices == PricesOf(raw_data[i][2])
                    IN  /\ prices = <<>> => RowsFor(raw_data[i][1]) = <<>>
                        /\ Len(RowsFor(raw_data[i][1]))
                              = Cardinality({DayOf(prices[k][1]) : k \in DOMAIN prices})
    /\ prog = "tickers" =>
          \A u \in 1..Len(TICKERS) :
              (Over(u) /\ ReqIdx(u) # {} /\ LastDownload(u) = "empty") =>
                  /\ \A k \in DOMAIN frames : frames[k].of # TICKERS[u]
                  /\ phase = "raised" =>
                        /\ log[Len(log)][3] = "error"
                        /\ log[Len(log)][2] > u
                  /\ phase = "returned" =>
                        \A v \in 1..Len(TICKERS) :
                            LastDownload(v) = "rows" =>
                                \E k \in DOMAIN frames : frames[k].of = TICKERS[v]

\* C28 witness: the first coin of raw_data has no prices key, the second has
\* samples of two days; process_prices_to_rows returned the second coin's two
\* rows.
C28_Witness ==
    /\ prog = "normalize"
    /\ normalized
    /\ Len(raw_data) = 2
    /\ raw_data[1][2] = [status |-> 429]
    /\ RowsFor(raw_data[1][1]) = <<>>
    /\ Len(rows) = 2
    /\ \A k \in DOMAIN rows : rows[k].coin_id = raw_data[2][1]

\* C29 (as claimed): a coin whose payload is malformed is skipped and the
\* run continues: no exception ends process_prices_to_rows, the coin
\* contributes no row, and the other coins get their rows.
C29_MalformedCoinSkipped ==
    prog = "normalize" =>
        /\ phase # "raised"
        /\ normalized =>
              \A i \in DOMAIN raw_data :
                  IF Unpacks(raw_data[i][2])
                  THEN LET prices == PricesOf(raw_data[i][2])
                       IN  Len(RowsFor(raw_data[i][1]))
                              = Cardinality({DayOf(prices[k][1]) : k \in DOMAIN prices})
                  ELSE RowsFor(raw_data[i][1]) = <<>>

---------------------------------------------------------------------------
(* Several rows of one key in one batch.                                   *)

\* The row of the batch that holds key k and comes last in it.
LastWithKey(t, arg, k) ==
    arg[MaxOf({i \in DOMAIN arg : KeyOf(t, arg[i]) = k})]

\* C30: an insert_crypto_prices, insert_oil_prices or insert_stock_prices
\* call whose batch holds several rows of one key does not fail for that (it
\* raises IntegrityError only on a row with a NULL in a NOT NULL column), and
\* when it has returned the table holds, for every key of the batch, exactly
\* one row: the last row of that key in batch order.
C30_LastInBatchWins ==
    (call.fn \in InsertFns /\ call.pc = "returned") =>
        LET t == TableOf(call.fn)
        IN  /\ ret = "IntegrityError" =>
                  \E j \in DOMAIN call.arg : ~ NotNull(t, call.arg[j])
            /\ ret = "ok" =>
                  \A j \in DOMAIN call.arg :
                      LET k == KeyOf(t, call.arg[j])
                          last == LastWithKey(t, call.arg, k)
                      IN  /\ {x \in RowSet(db[t]) : KeyOf(t, x) = k} = {last}
                          /\ db[t].rows[last] = 1

\* C30 witness: a call with two different rows of one key has returned; the
\* table holds the second and not the first.
C30_Witness ==
    /\ call.fn \in InsertFns
    /\ call.pc = "returned"
    /\ ret = "ok"
    /\ Len(call.arg) = 2
    /\ call.arg[1] # call.arg[2]
    /\ KeyOf(TableOf(call.fn), call.arg[1]) = KeyOf(TableOf(call.fn), call.arg[2])
    /\ call.arg[2] \in RowSet(db[TableOf(call.fn)])
    /\ call.arg[1] \notin RowSet(db[TableOf(call.fn)])

---------------------------------------------------------------------------
(* The insert functions on a connection of the caller: the `conn`          *)
(* parameter of insert_crypto_prices, insert_oil_prices and                *)
(* insert_stock_prices.  own_conn is False, so the function neither opens  *)
(* nor closes the connection, and what it leaves pending stays pending on  *)
(* the caller's connection.                                                *)

\* conn = get_connection(), by the caller.
get_connection ==
    /\ call.pc = "idle"
    /\ ~ conn.open
    /\ conn' = [open |-> TRUE, txn |-> FALSE, view |-> FreshDb]
    /\ UNCHANGED <<db, call, ret, pre, hist, repeat, seen, qpre>>
    /\ UNCHANGED <<fetchVars, normVars, sent>>

\* The canonical rows of the table the script writes.
RowsOf(fn) ==
    CASE fn = "insert_crypto_prices" -> CryptoRows
      [] fn = "insert_oil_prices" -> OilRows
      [] fn = "insert_stock_prices" -> StockRows

\* insert_crypto_prices(rows, conn), insert_oil_prices(rows, conn),
\* insert_stock_prices(rows, conn): own_conn = conn is None is False.
insert_on_connection ==
    /\ call.pc = "idle"
    /\ conn.open
    /\ \E b \in Batches(RowsOf(prog)) :
          call' = [fn |-> prog, arg |-> b, pc |-> "create", i |-> 1,
                   exc |-> "none", own_conn |-> FALSE]
    /\ pre' = db
    /\ ret' = "none"
    /\ repeat' = FALSE
    /\ UNCHANGED <<db, conn, hist, seen, qpre>>
    /\ UNCHANGED <<fetchVars, normVars, sent>>

\* What the caller does with its connection once the call is over:
\* conn.commit(), conn.rollback() or conn.close() (which rolls back).
caller_then ==
    /\ call.pc = "returned"
    /\ ~ call.own_conn
    /\ conn.open
    /\ \/ /\ db' = View
          /\ conn' = [conn EXCEPT !.txn = FALSE, !.view = FreshDb]
       \/ /\ db' = db
          /\ conn.txn
          /\ conn' = [conn EXCEPT !.txn = FALSE, !.view = FreshDb]
       \/ /\ db' = db
          /\ conn' = Closed
    /\ UNCHANGED <<call, ret, pre, hist, repeat, seen, qpre>>
    /\ UNCHANGED <<fetchVars, normVars, sent>>

\* A script that writes one historical table through connections it opens
\* itself and hands to the insert function.
NextCaller ==
    \/ get_connection
    \/ insert_on_connection
    \/ InsertStep
    \/ caller_then
    \/ next_run

SpecCaller == InitStore /\ [][NextCaller]_vars

\* C31 (as claimed): once an insert_crypto_prices, insert_oil_prices or
\* insert_stock_prices call on a connection of the caller has raised on a
\* row of its batch, no row of the batch that preceded that row is in the
\* table for other connections unless it was there when the call started,
\* whatever the caller does with the connection afterwards.
C31_PartialBatchNeverVisible ==
    (/\ call.fn \in InsertFns
     /\ ~ call.own_conn
     /\ call.pc = "returned"
     /\ ret \in Exceptions) =>
        LET t == TableOf(call.fn)
        IN  \A j \in 1..(call.i - 1) :
                call.arg[j] \in RowSet(db[t]) => call.arg[j] \in RowSet(pre[t])

---------------------------------------------------------------------------
(* The frames download_all_tickers appends.                                *)

\* The last download call for ticker number u returned rows.
GotRows(u) == ReqIdx(u) # {} /\ log[MaxOf(ReqIdx(u))][3] = "rows"

\* C32: in download_all_tickers every frame in `frames` is the non-empty
\* frame the last download call of its own ticker returned in this run, the
\* frames are in ticker order with no ticker twice, a ticker skipped after
\* its retries has no frame (in particular not the frame the ticker before
\* it left in df), and every finished ticker whose download returned rows
\* has its frame.
C32_FramesAreOwnDownloads ==
    prog = "tickers" =>
        /\ \A k \in DOMAIN frames :
              /\ ~ frames[k].empty
              /\ \E u \in 1..Len(TICKERS) :
                    /\ Over(u)
                    /\ GotRows(u)
                    /\ frames[k] = download_ticker_history(TICKERS[u], "rows")
        /\ \A j, k \in DOMAIN frames :
              j < k => \E u, v \in 1..Len(TICKERS) :
                          /\ u < v
                          /\ frames[j].of = TICKERS[u]
                          /\ frames[k].of = TICKERS[v]
        /\ \A u \in 1..Len(TICKERS) :
              (Over(u) /\ Throttled(u)) =>
                  \A k \in DOMAIN frames : frames[k].of # TICKERS[u]
        /\ Len(frames) = Cardinality({u \in 1..Len(TICKERS) : Over(u) /\ GotRows(u)})

\* C32 witness: the batch has returned; the first ticker's rows were
\* appended, the second ticker was skipped after RATE_LIMIT_RETRIES rate
\* limited attempts, the third ticker's rows were appended.
C32_Witness ==
    /\ prog = "tickers"
    /\ phase = "returned"
    /\ GotRows(1)
    /\ Throttled(2)
    /\ Cardinality(ReqIdx(2)) = RATE_LIMIT_RETRIES
    /\ GotRows(3)
    /\ Len(frames) = 2
    /\ frames[1].of = TICKERS[1]
    /\ frames[2].of = TICKERS[3]

====
